---- MODULE Spec2Model ----
(***************************************************************************)
(* adrf: asynchronous counterparts of the REST framework's serializers.    *)
(*                                                                         *)
(* Python values are tagged records ([t |-> "None"], [t |-> "int", ...]),  *)
(* so that None, numbers, strings, model instances and dictionaries can be *)
(* compared with each other.  An attribute an object does not have is      *)
(* Unset (what hasattr() answers False for).                               *)
(*                                                                         *)
(* SpecM2M   saves ContactList rows, which have a many-to-many relation,   *)
(*           through ModelSerializer.acreate and aupdate.                  *)
(* SpecView  sends create, retrieve, update, partial update and destroy    *)
(*           requests to a generic view built from the mixins.             *)
(* SpecMany  serializes a User with the deliveries of the reverse side of  *)
(*           a foreign key.                                                *)
(* SpecRev   serializes a User whose Additional is the reverse side of a   *)
(*           one-to-one.                                                   *)
(* SpecRepr  serializes a Delivery model instance (a forward foreign key   *)
(*           "order" to the Order table) through Serializer.               *)
(*           ato_representation and get_model_field_value.                 *)
(* SpecConc  lets two coroutines await the adata of one serializer of a    *)
(*           Delivery at the same time.                                    *)
(* Spec      drives one serializer object through is_valid, adata and      *)
(*           asave, directly and through serializer_adata and              *)
(*           serializer_asave.                                             *)
(***************************************************************************)
EXTENDS Integers, Sequences, FiniteSets, TLC

VARIABLES
    rows,     \* primary keys of the Order rows present in the database
    inst,     \* the Delivery instance handed to the serializer
    fields,   \* the serializer's _readable_fields, in declaration order
    pre,      \* instance and rows as they were when the last call started
    res,      \* outcome of the last Serializer.ato_representation call
    ncalls,   \* number of ato_representation calls made so far
    ser,      \* the serializer object: its class and its attributes
    last,     \* the last operation on ser: arguments, outcome, calls made
    done,     \* the operations on ser that have returned so far
    warnings, \* the warnings emitted so far
    view,     \* the view class that handles the requests
    table,    \* the rows of the view's or serializer's model, by primary key
    tasks     \* the coroutines awaiting adata: where each is, what it got

reprVars == <<rows, inst, fields, pre, res, ncalls>>
lifeVars == <<ser, last, done, warnings, view, table>>
vars ==
    <<rows, inst, fields, pre, res, ncalls, ser, last, done, warnings, view,
      table, tasks>>

(***************************************************************************)
(* Bounds of the model.                                                    *)
(***************************************************************************)
MaxRows == 2
MaxFields == 2
MaxCalls == 2

(***************************************************************************)
(* Python values.                                                          *)
(***************************************************************************)
None == [t |-> "None"]
Unset == [t |-> "unset"]
IntV(n) == [t |-> "int", v |-> n]
StrV(s) == [t |-> "str", v |-> s]
PKOnlyObject(pk) == [t |-> "PKOnlyObject", pk |-> pk]
Dict(items) == [t |-> "dict", items |-> items]
List(items) == [t |-> "list", items |-> items]

IsModel(v) == v.t = "Model"

\* An empty table.
NoRows == [p \in {} |-> None]

\* No coroutine is awaiting adata.
NoTasks == <<>>

RowPks == 1..MaxRows

\* The Order instance the database holds for primary key p.
OrderRow(p) ==
    [t |-> "Model", model |-> "Order", id |-> IntV(p),
     name |-> StrV("Order" \o ToString(p))]

\* An Order built in memory and never saved: it has no primary key.
UnsavedOrder ==
    [t |-> "Model", model |-> "Order", id |-> None, name |-> StrV("draft")]

\* A column that was deferred when the instance was loaded: the instance
\* does not hold its value, the database does.
Deferred(column) == [t |-> "deferred", column |-> column]

\* A Delivery instance.  "order" is the relation cache of the forward
\* foreign key (Unset: not cached), "order_id" its local key column and
\* "order_null" the null option of the model field.
Delivery(id, note, order_id, order, null) ==
    [t |-> "Model", model |-> "Delivery", id |-> id, note |-> note,
     order_id |-> order_id, order |-> order, order_null |-> null]

\* The instance handed to the serializer, as another object's cache holds
\* it (a reference to it).
TheInstance == [t |-> "ref", to |-> "instance"]

\* A User instance.  "additional" is the cache of the reverse one-to-one
\* relation from Additional.user (Unset: not cached, None: cached as absent).
User(id, additional) ==
    [t |-> "Model", model |-> "User", id |-> id, username |-> StrV("test"),
     additional |-> additional]

\* The Additional instance the database holds for the user p; the user is
\* its primary key.  "user" is the cache of its forward one-to-one relation.
AdditionalRow(p) ==
    [t |-> "Model", model |-> "Additional", id |-> IntV(p),
     user_id |-> IntV(p), nickname |-> StrV("Mr." \o ToString(p)),
     user |-> Unset]

\* A related manager and the QuerySet its all() returns.  Neither holds
\* rows: the rows are read from the database when the QuerySet is iterated.
Manager(model) == [t |-> "Manager", model |-> model]
ManagerAll(manager) == [t |-> "QuerySet", model |-> manager.model]

\* The Delivery instance the database holds for primary key p.
DeliveryRow(p) ==
    Delivery(IntV(p), StrV("note" \o ToString(p)), None, None, TRUE)

\* The rows a QuerySet yields when it is iterated, in primary-key order.
RECURSIVE PkOrder(_)
PkOrder(pks) ==
    IF pks = {} THEN <<>>
    ELSE LET first == CHOOSE p \in pks : \A q \in pks : p <= q IN
         <<DeliveryRow(first)>> \o PkOrder(pks \ {first})

\* A value that is iterated: a list as it is, a QuerySet from the database.
Iterate(data, db) == IF data.t = "QuerySet" THEN PkOrder(db) ELSE data.items

\* A User who delivers.  "delivery_set" is the manager of the reverse side
\* of Delivery.deliverer, "greeting" a property, and "target" the cache of a
\* generic foreign key (Unset: not cached) whose key column is "target_id".
Deliverer(id, target_id, target) ==
    [t |-> "Model", model |-> "User", id |-> id, username |-> StrV("test"),
     greeting |-> StrV("Hi, test"), delivery_set |-> Manager("Delivery"),
     target_id |-> target_id, target |-> target]

(***************************************************************************)
(* Results of calls: exc is "none" when the call returned.                 *)
(***************************************************************************)
Returned(v) == [exc |-> "none", val |-> v]
Raised(e) == [exc |-> e, val |-> None]

Ev(op, field, via) == [op |-> op, field |-> field, via |-> via]
EvAttr(field, v) == [op |-> "attribute", field |-> field, via |-> "", val |-> v]

(***************************************************************************)
(* Field classes.                                                          *)
(***************************************************************************)
SOOP_FREE_DRF_FIELDS ==
    {"BooleanField", "CharField", "DateField", "DateTimeField",
     "DecimalField", "DurationField", "EmailField", "FileField",
     "FilePathField", "FloatField", "HStoreField", "ImageField",
     "IntegerField", "IPAddressField", "JSONField", "ModelField",
     "SlugField", "TimeField", "URLField", "UUIDField",
     "PrimaryKeyRelatedField", "HyperlinkedIdentityField"}

\* Classes whose ato_representation is a coroutine function.
AsyncClasses == {"Serializer", "ListSerializer", "ModelSerializer"}

has_ato_representation(field) == field.cls \in AsyncClasses

\* rest_framework.relations.RelatedField and its subclasses.
IsRelatedField(cls) ==
    cls \in {"PrimaryKeyRelatedField", "StringRelatedField",
             "SlugRelatedField", "HyperlinkedIdentityField"}

use_pk_only_optimization(cls) == cls = "PrimaryKeyRelatedField"

\* The base class a user-defined field class derives from.
BaseClass(cls) == IF cls = "MyCharField" THEN "CharField" ELSE cls

Field(name, cls) ==
    [field_name |-> name, source |-> name, cls |-> cls, required |-> TRUE]

\* Fields of the nested serializer of an Order: ("id", "name").
OrderFields == <<Field("id", "IntegerField"), Field("name", "CharField")>>

\* Fields of AdditionalSerializer: ("user", "nickname").
AdditionalFields ==
    <<Field("user", "PrimaryKeyRelatedField"), Field("nickname", "CharField")>>

\* Fields of the nested serializer of a Delivery: ("id", "note").
DeliveryFields == <<Field("id", "IntegerField"), Field("note", "CharField")>>

\* The fields of the nested serializer of a related object.
NestedFields(model) ==
    IF model = "Additional" THEN AdditionalFields
    ELSE IF model = "Delivery" THEN DeliveryFields
    ELSE OrderFields

(***************************************************************************)
(* The model classes' descriptors, as get_model_field_value sees them.     *)
(* A plain column is a DeferredAttribute, which has no is_cached; the      *)
(* forward foreign key and the forward one-to-one are                      *)
(* ForwardManyToOneDescriptors, the reverse side of a one-to-one is a      *)
(* ReverseOneToOneDescriptor.  The reverse side of a foreign key is a      *)
(* ReverseManyToOneDescriptor, which has no is_cached either; a property   *)
(* is a descriptor of the user's own; a GenericForeignKey is a descriptor  *)
(* that has is_cached and is none of the kinds the function names.         *)
(***************************************************************************)
Descriptor(model, source) ==
    IF \/ model = "Delivery" /\ source = "order"
       \/ model = "Additional" /\ source = "user"
    THEN [kind |-> "ForwardManyToOneDescriptor", has_is_cached |-> TRUE]
    ELSE IF model = "User" /\ source = "additional"
    THEN [kind |-> "ReverseOneToOneDescriptor", has_is_cached |-> TRUE]
    ELSE IF model = "User" /\ source = "delivery_set"
    THEN [kind |-> "ReverseManyToOneDescriptor", has_is_cached |-> FALSE]
    ELSE IF model = "User" /\ source = "greeting"
    THEN [kind |-> "property", has_is_cached |-> FALSE]
    ELSE IF model = "User" /\ source = "target"
    THEN [kind |-> "GenericForeignKey", has_is_cached |-> TRUE]
    ELSE [kind |-> "DeferredAttribute", has_is_cached |-> FALSE]

is_cached(instance, source) == instance[source] # Unset

\* descriptor.field.get_local_related_value(instance): the local key column.
get_local_related_value(instance, source) ==
    IF source = "order" THEN instance.order_id
    ELSE IF source = "user" THEN instance.user_id
    ELSE None

\* Reading a column of the instance.  A deferred column is loaded by
\* refresh_from_db(), a synchronous query, which the ORM refuses to run in
\* the thread of a running event loop.
ReadColumn(column) ==
    IF column.t = "deferred" THEN Raised("SynchronousOnlyOperation")
    ELSE Returned(column)

(***************************************************************************)
(* field.get_attribute(instance), the synchronous read.  A related field   *)
(* using the pk-only optimization reads the local key column and wraps it; *)
(* any other field reads the attribute, which for a relation that is not   *)
(* cached is the descriptor's blocking database read.                      *)
(***************************************************************************)
\* The descriptor's __get__ raises RelatedObjectDoesNotExist for a cached
\* None on the reverse side of a one-to-one and on a forward relation that
\* is not nullable.
RaisesWhenAbsent(instance, source) ==
    IF ~IsModel(instance) THEN FALSE
    ELSE LET kind == Descriptor(instance.model, source).kind IN
         \/ kind = "ReverseOneToOneDescriptor"
         \/ /\ kind = "ForwardManyToOneDescriptor"
            /\ instance.model = "Delivery"
            /\ ~instance.order_null

FieldGetAttribute(instance, field) ==
    IF IsModel(instance) /\ IsRelatedField(field.cls)
       /\ use_pk_only_optimization(field.cls)
    THEN LET r == ReadColumn(get_local_related_value(instance, field.source))
         IN IF r.exc # "none" THEN r ELSE Returned(PKOnlyObject(r.val))
    ELSE IF field.cls = "ManyRelatedField"
    THEN (IF instance.id = None THEN Returned(List(<<>>))
          ELSE Returned(ManagerAll(instance[field.source])))
    ELSE IF field.source \notin DOMAIN instance
    THEN (IF field.required THEN Raised("AttributeError")
          ELSE Raised("SkipField"))
    ELSE IF instance[field.source] = Unset
    THEN Raised("SynchronousOnlyOperation")
    ELSE IF instance[field.source] = None
            /\ RaisesWhenAbsent(instance, field.source)
    THEN (IF field.required THEN Raised("RelatedObjectDoesNotExist")
          ELSE Raised("SkipField"))
    ELSE Returned(instance[field.source])

Got(r, instance, log) ==
    [exc |-> r.exc, val |-> r.val, instance |-> instance, log |-> log]

(***************************************************************************)
(* get_model_field_value: a descriptor that has is_cached, is not cached   *)
(* and is none of the kinds the function names.  field.get_attribute runs  *)
(* in a worker thread, where the descriptor may query: it loads the object *)
(* the instance points to and keeps it in the cache.                       *)
(***************************************************************************)
\* A variant that reads the attribute on the calling coroutine.
UnknownUncachedDirect(instance, field, db) ==
    Got(FieldGetAttribute(instance, field), instance,
        <<Ev("get_attribute", field.field_name, "direct")>>)

UnknownUncached(instance, field, db) ==
    LET loaded == IF instance[field.source] # Unset THEN instance
                  ELSE [instance EXCEPT ![field.source] =
                          IF instance.target_id = None THEN None
                          ELSE OrderRow(instance.target_id.v)]
    IN Got(FieldGetAttribute(loaded, field), loaded,
           <<Ev("get_attribute", field.field_name, "sync_to_async")>>)

(***************************************************************************)
(* get_model_field_value: the forward relation that is not cached.         *)
(***************************************************************************)
\* A variant that takes a relation that is not cached for a null one.
ForwardUncachedAsNull(instance, field, db) ==
    Got(Returned(None), instance, <<>>)

\* A variant that does not look at the null option of the model field.
ForwardUncachedNullRaises(instance, field, db) ==
    LET key == get_local_related_value(instance, field.source) IN
    IF ReadColumn(key).exc # "none"
    THEN Got(ReadColumn(key), instance,
             <<Ev("refresh_from_db", field.field_name, "direct")>>)
    ELSE IF key # None
    THEN IF key.v \in db
         THEN Got(Returned(OrderRow(key.v)),
                  [instance EXCEPT ![field.source] = OrderRow(key.v)],
                  <<Ev("aget", field.field_name, "await")>>)
         ELSE Got(Raised("DoesNotExist"), instance,
                  <<Ev("aget", field.field_name, "await")>>)
    ELSE Got(Raised("RelatedObjectDoesNotExist"), instance, <<>>)

\* A variant that returns the fetched object without keeping it.
ForwardUncachedNotKept(instance, field, db) ==
    LET key == get_local_related_value(instance, field.source) IN
    IF ReadColumn(key).exc # "none"
    THEN Got(ReadColumn(key), instance,
             <<Ev("refresh_from_db", field.field_name, "direct")>>)
    ELSE IF key # None
    THEN IF key.v \in db
         THEN Got(Returned(OrderRow(key.v)), instance,
                  <<Ev("aget", field.field_name, "await")>>)
         ELSE Got(Raised("DoesNotExist"), instance,
                  <<Ev("aget", field.field_name, "await")>>)
    ELSE IF instance.order_null
         THEN Got(Returned(None), instance, <<>>)
         ELSE Got(Raised("RelatedObjectDoesNotExist"), instance, <<>>)

ForwardUncached(instance, field, db) ==
    LET key == get_local_related_value(instance, field.source) IN
    IF ReadColumn(key).exc # "none"
    THEN Got(ReadColumn(key), instance,
             <<Ev("refresh_from_db", field.field_name, "direct")>>)
    ELSE IF key # None
    THEN IF key.v \in db
         THEN Got(Returned(OrderRow(key.v)),
                  [instance EXCEPT ![field.source] = OrderRow(key.v)],
                  <<Ev("aget", field.field_name, "await")>>)
         ELSE Got(Raised("DoesNotExist"), instance,
                  <<Ev("aget", field.field_name, "await")>>)
    ELSE IF instance.order_null
         THEN Got(Returned(None), instance, <<>>)
         ELSE Got(Raised("RelatedObjectDoesNotExist"), instance, <<>>)

(***************************************************************************)
(* get_model_field_value: the reverse one-to-one that is not cached.       *)
(***************************************************************************)
\* A variant that returns the absent related object instead of raising.
ReverseUncachedReturnsNone(instance, field, db) ==
    LET related_pk == instance.id
        found == related_pk # None /\ related_pk.v \in db
        rel_obj == IF found
                   THEN [AdditionalRow(related_pk.v) EXCEPT !.user = TheInstance]
                   ELSE None
    IN Got(Returned(rel_obj), [instance EXCEPT ![field.source] = rel_obj],
           IF related_pk = None THEN <<>>
           ELSE <<Ev("aget", field.field_name, "await")>>)

ReverseUncached(instance, field, db) ==
    LET related_pk == instance.id
        found == related_pk # None /\ related_pk.v \in db
        rel_obj == IF found
                   THEN [AdditionalRow(related_pk.v) EXCEPT !.user = TheInstance]
                   ELSE None
    IN Got(IF rel_obj = None THEN Raised("RelatedObjectDoesNotExist")
           ELSE Returned(rel_obj),
           [instance EXCEPT ![field.source] = rel_obj],
           IF related_pk = None THEN <<>>
           ELSE <<Ev("aget", field.field_name, "await")>>)

GetModelFieldValue(instance, field, db) ==
    IF IsRelatedField(field.cls) /\ use_pk_only_optimization(field.cls)
    THEN Got(FieldGetAttribute(instance, field), instance,
             <<Ev("get_attribute", field.field_name, "direct")>>)
    ELSE LET descriptor == Descriptor(instance.model, field.source) IN
         IF ~descriptor.has_is_cached \/ is_cached(instance, field.source)
         THEN Got(FieldGetAttribute(instance, field), instance,
                  <<Ev("get_attribute", field.field_name, "direct")>>)
         ELSE IF descriptor.kind = "ForwardManyToOneDescriptor"
         THEN ForwardUncached(instance, field, db)
         ELSE IF descriptor.kind = "ReverseOneToOneDescriptor"
         THEN ReverseUncached(instance, field, db)
         ELSE IF descriptor.kind = "ReverseManyToOneDescriptor"
         THEN Got(FieldGetAttribute(instance, field), instance,
                  <<Ev("get_attribute", field.field_name, "direct")>>)
         ELSE UnknownUncached(instance, field, db)

(***************************************************************************)
(* The fields' synchronous to_representation.                              *)
(***************************************************************************)
RECURSIVE ToRepresentation(_, _)

\* rest_framework's Serializer.to_representation: the synchronous loop.
RECURSIVE SyncLoop(_, _, _, _)
SyncLoop(flds, i, instance, ret) ==
    IF i > Len(flds) THEN [exc |-> "none", ret |-> ret]
    ELSE
    LET field == flds[i]
        got == FieldGetAttribute(instance, field)
    IN
    IF got.exc = "SkipField" THEN SyncLoop(flds, i + 1, instance, ret)
    ELSE IF got.exc # "none" THEN [exc |-> got.exc, ret |-> ret]
    ELSE IF (IF got.val.t = "PKOnlyObject" THEN got.val.pk ELSE got.val) = None
    THEN SyncLoop(flds, i + 1, instance,
                  Append(ret, <<field.field_name, None>>))
    ELSE SyncLoop(flds, i + 1, instance,
                  Append(ret, <<field.field_name,
                                ToRepresentation(field, got.val)>>))

SyncToRepresentation(flds, instance) == SyncLoop(flds, 1, instance, <<>>)

ToRepresentation(field, value) ==
    LET base == BaseClass(field.cls) IN
    CASE base = "IntegerField" -> value
      [] base = "CharField" ->
            IF value.t = "int" THEN StrV(ToString(value.v)) ELSE value
      [] base = "PrimaryKeyRelatedField" ->
            IF IsModel(value) THEN value.id ELSE value.pk
      [] base = "StringRelatedField" ->
            IF value.model = "Order"
            THEN StrV("Order<" \o value.name.v \o ">")
            ELSE StrV(value.model \o " object (" \o ToString(value.id.v)
                      \o ")")
      [] base = "DRFSerializer" ->
            Dict(SyncToRepresentation(NestedFields(value.model), value).ret)
      [] base = "ManyRelatedField" ->
            List([k \in 1..Len(value.items) |-> value.items[k].id])
      [] OTHER -> value

(***************************************************************************)
(* Serializer.ato_representation.                                          *)
(***************************************************************************)
\* A variant that tests the class with isinstance() instead of type().
ConversionPathIsinstance(field) ==
    IF BaseClass(field.cls) \in SOOP_FREE_DRF_FIELDS THEN "direct"
    ELSE IF has_ato_representation(field) THEN "await"
    ELSE "sync_to_async"

\* Which of the three conversions a field gets.
ConversionPath(field) ==
    IF field.cls \in SOOP_FREE_DRF_FIELDS THEN "direct"
    ELSE IF has_ato_representation(field) THEN "await"
    ELSE "sync_to_async"

RECURSIVE AtoLoop(_, _, _, _, _, _)

(***************************************************************************)
(* ListSerializer.ato_representation of a nested serializer with           *)
(* many=True: a manager is replaced by its all(), the items are iterated   *)
(* and each is handed to the child, awaited when the child has an          *)
(* ato_representation and through sync_to_async otherwise.                 *)
(***************************************************************************)
\* The child's part of one turn: its representation of the item and the
\* call that gave it.
ChildTurn(field, item, db) ==
    IF has_ato_representation([cls |-> field.child])
    THEN CHOOSE turn \in
            {[exc |-> r.exc, repr |-> Dict(r.ret),
              call |-> Ev("child.ato_representation", field.field_name,
                          "await")] :
               r \in {AtoLoop(NestedFields(field.child_model), 1, item, db,
                              <<>>, <<>>)}} : TRUE
    ELSE CHOOSE turn \in
            {[exc |-> r.exc, repr |-> Dict(r.ret),
              call |-> Ev("child.to_representation", field.field_name,
                          "sync_to_async")] :
               r \in {SyncToRepresentation(NestedFields(field.child_model),
                                           item)}} : TRUE

\* The results of calls are bound as elements of sets, which fixes their
\* values before they are used.
RECURSIVE NestedListLoop(_, _, _, _, _, _)
NestedListLoop(field, items, i, db, out, log) ==
    IF i > Len(items) THEN [exc |-> "none", val |-> List(out), log |-> log]
    ELSE CHOOSE res0 \in
            {IF turn.exc # "none"
             THEN [exc |-> turn.exc, val |-> None,
                   log |-> Append(log, turn.call)]
             ELSE NestedListLoop(field, items, i + 1, db,
                                 Append(out, turn.repr),
                                 Append(log, turn.call)) :
               turn \in {ChildTurn(field, items[i], db)}} : TRUE

\* A variant that iterates a manager as it is given.
NestedListRepresentationOfManager(field, attribute, db) ==
    IF attribute.t = "Manager"
    THEN [exc |-> "TypeError", val |-> None, log |-> <<>>]
    ELSE NestedListLoop(field, Iterate(attribute, db), 1, db, <<>>, <<>>)

NestedListRepresentation(field, attribute, db) ==
    LET iterable == IF attribute.t = "Manager" THEN ManagerAll(attribute)
                    ELSE attribute
    IN NestedListLoop(field, Iterate(iterable, db), 1, db, <<>>, <<>>)

\* What a synchronous to_representation is handed: iterating a QuerySet
\* there reads its rows.
Evaluated(attribute, db) ==
    IF attribute.t = "QuerySet" THEN List(Iterate(attribute, db))
    ELSE attribute

ConvertField(field, attribute, db) ==
    LET path == ConversionPath(field) IN
    IF path = "await" /\ field.cls = "ListSerializer"
    THEN CHOOSE conv \in
            {[exc |-> r.exc, repr |-> r.val,
              log |-> <<Ev("ato_representation", field.field_name, path)>>
                      \o r.log] :
               r \in {NestedListRepresentation(field, attribute, db)}} : TRUE
    ELSE IF path = "await"
    THEN LET r == AtoLoop(NestedFields(attribute.model), 1, attribute, db,
                          <<>>, <<>>) IN
         [exc |-> r.exc, repr |-> Dict(r.ret),
          log |-> <<Ev("ato_representation", field.field_name, path)>>]
    ELSE [exc |-> "none",
          repr |-> ToRepresentation(field, Evaluated(attribute, db)),
          log |-> <<Ev("to_representation", field.field_name, path)>>]

\* One turn of the loop of ato_representation, for the field and what
\* reading its attribute gave.
AtoStep(flds, i, field, got, db, ret, log) ==
    IF got.exc = "SkipField"
    THEN AtoLoop(flds, i + 1, got.instance, db, ret, log \o got.log)
    ELSE IF got.exc # "none"
    THEN [exc |-> got.exc, ret |-> ret, log |-> log \o got.log,
          instance |-> got.instance]
    ELSE
    LET attribute == got.val
        check_for_none == IF IsModel(attribute) THEN attribute.id
                          ELSE attribute
        log1 == (log \o got.log) \o <<EvAttr(field.field_name, attribute)>>
    IN
    IF check_for_none = None
    THEN AtoLoop(flds, i + 1, got.instance, db,
                 Append(ret, <<field.field_name, None>>), log1)
    ELSE CHOOSE out \in
            {IF conv.exc # "none"
             THEN [exc |-> conv.exc, ret |-> ret, log |-> log1 \o conv.log,
                   instance |-> got.instance]
             ELSE AtoLoop(flds, i + 1, got.instance, db,
                          Append(ret, <<field.field_name, conv.repr>>),
                          log1 \o conv.log) :
               conv \in {ConvertField(field, attribute, db)}} : TRUE

\* The attribute is read once per field: the read is bound as an element of
\* a set, which fixes its value before the turn uses it.
AtoLoop(flds, i, instance, db, ret, log) ==
    IF i > Len(flds)
    THEN [exc |-> "none", ret |-> ret, log |-> log, instance |-> instance]
    ELSE
    LET field == flds[i]
        read == IF IsModel(instance)
                THEN GetModelFieldValue(instance, field, db)
                ELSE Got(FieldGetAttribute(instance, field), instance,
                         <<Ev("get_attribute", field.field_name, "direct")>>)
    IN CHOOSE out \in {AtoStep(flds, i, field, got, db, ret, log) :
                         got \in {read}} : TRUE

\* A variant that takes the fields in reverse order.
AtoRepresentationBackwards(flds, instance, db) ==
    AtoLoop([i \in 1..Len(flds) |-> flds[Len(flds) + 1 - i]], 1, instance, db,
            <<>>, <<>>)

AtoRepresentation(flds, instance, db) ==
    AtoLoop(flds, 1, instance, db, <<>>, <<>>)

(***************************************************************************)
(* SpecRepr: a Delivery is built in memory, possibly saved and loaded      *)
(* again from the database, and serialized.                                *)
(***************************************************************************)
FieldChoices ==
    {Field("id", "IntegerField")}
    \cup {Field("note", c) : c \in {"CharField", "MyCharField"}}
    \cup {Field("order", c) :
            c \in {"PrimaryKeyRelatedField", "StringRelatedField",
                   "Serializer", "DRFSerializer"}}

RECURSIVE FieldLists(_)
FieldLists(n) ==
    IF n = 0 THEN {<<>>}
    ELSE LET shorter == FieldLists(n - 1) IN
         shorter \cup
         {Append(fl, f) : fl \in {x \in shorter : Len(x) = n - 1},
                          f \in FieldChoices}

DistinctNames(fl) ==
    \A i, j \in 1..Len(fl) : i # j => fl[i].field_name # fl[j].field_name

NoResult == [exc |-> "none", ret |-> <<>>, log |-> <<>>, instance |-> None]

InitRepr ==
    /\ rows = RowPks
    /\ \E id \in {None, IntV(1)}, note \in {None, StrV("n")}, null \in BOOLEAN,
          order \in {None, UnsavedOrder} \cup {OrderRow(p) : p \in RowPks} :
            inst = Delivery(id, note,
                            IF order = None THEN None ELSE order.id,
                            order, null)
    /\ fields \in {fl \in FieldLists(MaxFields) : Len(fl) > 0 /\ DistinctNames(fl)}
    /\ pre = [inst |-> None, rows |-> {}]
    /\ res = NoResult
    /\ ncalls = 0
    /\ ser = None
    /\ last = None
    /\ done = {}
    /\ warnings = {}
    /\ view = None
    /\ table = NoRows
    /\ tasks = NoTasks

\* Delivery.objects.aget(pk=...): the same row as a fresh instance, whose
\* relation is not cached.
Reload ==
    /\ inst.id # None
    /\ inst.order # Unset
    /\ inst' = [inst EXCEPT !.order = Unset]
    /\ UNCHANGED <<rows, fields, pre, res, ncalls>>
    /\ UNCHANGED <<lifeVars, tasks>>

\* Delivery.objects.defer("order").aget(pk=...): a fresh instance that does
\* not hold the local key column either.
ReloadDeferred ==
    /\ inst.id # None
    /\ inst.order_id.t # "deferred"
    /\ inst' = [inst EXCEPT !.order = Unset, !.order_id = Deferred(@)]
    /\ UNCHANGED <<rows, fields, pre, res, ncalls>>
    /\ UNCHANGED <<lifeVars, tasks>>

\* The local key column as the database holds it.
StoredKey(instance) ==
    IF instance.order_id.t = "deferred" THEN instance.order_id.column
    ELSE instance.order_id

\* order.adelete() with on_delete=DO_NOTHING: the Delivery keeps its key.
DeleteRow ==
    /\ StoredKey(inst) # None
    /\ StoredKey(inst).v \in rows
    /\ rows' = rows \ {StoredKey(inst).v}
    /\ UNCHANGED <<inst, fields, pre, res, ncalls>>
    /\ UNCHANGED <<lifeVars, tasks>>

\* await serializer.ato_representation(instance)
Serialize ==
    /\ ncalls < MaxCalls
    /\ LET r == AtoRepresentation(fields, inst, rows) IN
        /\ res' = r
        /\ inst' = r.instance
    /\ pre' = [inst |-> inst, rows |-> rows]
    /\ ncalls' = ncalls + 1
    /\ UNCHANGED <<rows, fields>>
    /\ UNCHANGED <<lifeVars, tasks>>

NextRepr == Reload \/ ReloadDeferred \/ DeleteRow \/ Serialize

SpecRepr == InitRepr /\ [][NextRepr]_vars

(***************************************************************************)
(* Claims about Serializer.ato_representation (checked under SpecRepr).    *)
(***************************************************************************)
Called == ncalls > 0

\* Positions in the last call's log of the events of field f.
AttrEvents(f) ==
    {i \in 1..Len(res.log) :
        res.log[i].op = "attribute" /\ res.log[i].field = f.field_name}

ConvEvents(f) ==
    {i \in 1..Len(res.log) :
        /\ res.log[i].op \in {"to_representation", "ato_representation"}
        /\ res.log[i].field = f.field_name}

\* The event is the conversion the field's class calls for.
RightPath(f, e) ==
    /\ e.via = "direct" <=> f.cls \in SOOP_FREE_DRF_FIELDS
    /\ e.via = "await" <=>
        (f.cls \notin SOOP_FREE_DRF_FIELDS /\ has_ato_representation(f))
    /\ e.via = "sync_to_async" <=>
        (f.cls \notin SOOP_FREE_DRF_FIELDS /\ ~has_ato_representation(f))
    /\ e.op = "ato_representation" <=> e.via = "await"

\* What ato_representation tests against None: a model instance's pk, or
\* the attribute itself.
CheckForNone(attribute) ==
    IF IsModel(attribute) THEN attribute.id ELSE attribute

ConvertedOnce(f) ==
    /\ Cardinality(ConvEvents(f)) = 1
    /\ \A c \in ConvEvents(f) :
        /\ RightPath(f, res.log[c])
        /\ \A a \in AttrEvents(f) : a < c

\* C1 (as stated): every field whose attribute is not None is converted
\* exactly once, directly iff its exact type is in SOOP_FREE_DRF_FIELDS, else
\* by awaiting ato_representation iff it has one, else through sync_to_async.
C1_AsStated ==
    Called =>
        \A i \in 1..Len(fields) :
            \A a \in AttrEvents(fields[i]) :
                res.log[a].val # None => ConvertedOnce(fields[i])

\* C1 (amended): every field whose attribute is not None and, when the
\* attribute is a model instance, whose primary key is not None, is
\* converted exactly once by the path its class calls for; a field whose
\* attribute (or its primary key) is None, or whose attribute was never
\* read, is not converted at all; and a call that returns has read every
\* field's attribute once.
C1_ConversionPaths ==
    Called =>
        \A i \in 1..Len(fields) :
            LET f == fields[i] IN
            /\ Cardinality(AttrEvents(f)) <= 1
            /\ res.exc = "none" => Cardinality(AttrEvents(f)) = 1
            /\ AttrEvents(f) = {} => ConvEvents(f) = {}
            /\ \A a \in AttrEvents(f) :
                IF CheckForNone(res.log[a].val) # None
                THEN ConvertedOnce(f)
                ELSE ConvEvents(f) = {}

\* A call that converted one field by awaiting ato_representation and
\* another through sync_to_async.
C1_Witness ==
    /\ Called
    /\ res.exc = "none"
    /\ \E i, j \in 1..Len(res.log) :
        /\ res.log[i].op = "ato_representation" /\ res.log[i].via = "await"
        /\ res.log[j].op = "to_representation"
        /\ res.log[j].via = "sync_to_async"

\* The "order" field among the serializer's fields, if any.
OrderFieldOf(fl) == {i \in 1..Len(fl) : fl[i].source = "order"}

\* The last call started on a fresh instance: relation not cached, local key
\* loaded and not null.
StartedFresh ==
    /\ Called
    /\ pre.inst.order = Unset
    /\ pre.inst.order_id.t = "int"

\* The instance the last call started on, with the relation cached.
PreCached == [pre.inst EXCEPT !.order = OrderRow(pre.inst.order_id.v)]

SameAsCached ==
    LET c == AtoRepresentation(fields, PreCached, pre.rows) IN
    res.exc = c.exc /\ res.ret = c.ret

NoSyncRead(f) ==
    \A k \in 1..Len(res.log) :
        ~(res.log[k].op = "get_attribute" /\ res.log[k].field = f.field_name)

FetchedWithAget(f) ==
    \E k \in 1..Len(res.log) :
        res.log[k] = Ev("aget", f.field_name, "await")

OutputsOf(f) ==
    {res.ret[k][2] : k \in {j \in 1..Len(res.ret) : res.ret[j][1] = f.field_name}}

\* The last call started on a fresh instance whose local key is null and
\* whose model field is nullable.
NullFresh ==
    /\ Called
    /\ pre.inst.order = Unset
    /\ pre.inst.order_id = None
    /\ pre.inst.order_null

\* A field whose attribute was a model instance without a primary key is
\* written as None and not converted.
UnsavedWritesNone ==
    Called =>
        \A i \in 1..Len(fields) :
            \A a \in AttrEvents(fields[i]) :
                (IsModel(res.log[a].val) /\ res.log[a].val.id = None) =>
                    /\ ConvEvents(fields[i]) = {}
                    /\ res.exc = "none" => OutputsOf(fields[i]) = {None}

\* C11 (as stated): for a fresh instance with a null key on a nullable
\* forward foreign key, get_model_field_value returns None without a query
\* and None is written without any conversion; None is also written for an
\* attribute that is a model instance without a primary key.
C11_AsStated ==
    /\ NullFresh =>
        /\ res.exc = "none"
        /\ \A i \in OrderFieldOf(fields) :
            LET f == fields[i] IN
            /\ ~FetchedWithAget(f)
            /\ \A a \in AttrEvents(f) : res.log[a].val = None
            /\ ConvEvents(f) = {}
            /\ OutputsOf(f) = {None}
    /\ UnsavedWritesNone

\* C11 (amended): as stated for a relation field without the pk-only
\* optimization; a field with the pk-only optimization gets a PKOnlyObject
\* whose pk is None from field.get_attribute, its to_representation is called
\* directly, and None is written all the same.  No query in either case.
C11_NullKey ==
    /\ NullFresh =>
        /\ res.exc = "none"
        /\ \A i \in OrderFieldOf(fields) :
            LET f == fields[i] IN
            /\ ~FetchedWithAget(f)
            /\ OutputsOf(f) = {None}
            /\ IF use_pk_only_optimization(f.cls)
               THEN /\ \A a \in AttrEvents(f) :
                        res.log[a].val = PKOnlyObject(None)
                    /\ ConvertedOnce(f)
               ELSE /\ \A a \in AttrEvents(f) : res.log[a].val = None
                    /\ NoSyncRead(f)
                    /\ ConvEvents(f) = {}
    /\ UnsavedWritesNone

\* A fresh instance with a null key was serialized through a nested
\* serializer, which wrote None.
C11_Witness ==
    /\ NullFresh
    /\ res.exc = "none"
    /\ \E i \in OrderFieldOf(fields) :
        /\ fields[i].cls = "Serializer"
        /\ OutputsOf(fields[i]) = {None}
        /\ AttrEvents(fields[i]) # {}

\* C12: for a fresh instance with a null key on a forward foreign key that
\* is not nullable, serialized through a nested or string field, the call
\* raises IntegrityError ("<Model> has no
\* <field>.") and issues no query for the relation.
C12_NullKeyIntegrityError ==
    (/\ Called
     /\ pre.inst.order = Unset
     /\ pre.inst.order_id = None
     /\ ~pre.inst.order_null
     /\ \E i \in OrderFieldOf(fields) :
            ~use_pk_only_optimization(fields[i].cls)) =>
        /\ res.exc = "IntegrityError"
        /\ \A i \in OrderFieldOf(fields) : ~FetchedWithAget(fields[i])

\* C13: for a fresh instance whose referenced row is gone, serialized
\* through a nested or string field, the call raises IntegrityError ("<Model> lost <field>.") and caches nothing on the
\* instance.
C13_VanishedIntegrityError ==
    (/\ StartedFresh
     /\ pre.inst.order_id.v \notin pre.rows
     /\ \E i \in OrderFieldOf(fields) :
            ~use_pk_only_optimization(fields[i].cls)) =>
        /\ res.exc = "IntegrityError"
        /\ res.instance.order = Unset

\* The last call started on an instance loaded with its foreign-key column
\* deferred.
DeferredFresh ==
    /\ Called
    /\ pre.inst.order = Unset
    /\ pre.inst.order_id.t = "deferred"

\* The instance the last call started on, fully loaded.
PreLoaded == [pre.inst EXCEPT !.order_id = @.column]

\* C15: an instance loaded with its foreign-key column deferred serializes
\* to the same representation as the fully loaded instance, and the
\* serialization makes no synchronous read of the deferred key.
C15_DeferredSameAsLoaded ==
    (/\ DeferredFresh
     /\ OrderFieldOf(fields) # {}
     /\ PreLoaded.order_id # None
     /\ PreLoaded.order_id.v \in pre.rows) =>
        /\ res.exc = AtoRepresentation(fields, PreLoaded, pre.rows).exc
        /\ res.ret = AtoRepresentation(fields, PreLoaded, pre.rows).ret
        /\ \A k \in 1..Len(res.log) : res.log[k].op # "refresh_from_db"

(***************************************************************************)
(* SpecRev: a User, with or without an Additional row (the reverse side of *)
(* a one-to-one), is serialized.  rows holds the primary keys of the       *)
(* Additional rows present, which are their users' primary keys.           *)
(***************************************************************************)
RevFieldChoices ==
    {Field("id", "IntegerField")}
    \cup {Field("username", c) : c \in {"CharField", "MyCharField"}}
    \cup {Field("additional", c) :
            c \in {"StringRelatedField", "Serializer", "DRFSerializer"}}

RECURSIVE RevFieldLists(_)
RevFieldLists(n) ==
    IF n = 0 THEN {<<>>}
    ELSE LET shorter == RevFieldLists(n - 1) IN
         shorter \cup
         {Append(fl, f) : fl \in {x \in shorter : Len(x) = n - 1},
                          f \in RevFieldChoices}

\* User(username="test"), unsaved, or User.objects.acreate(username="test").
InitRev ==
    /\ rows \in SUBSET RowPks
    /\ \E id \in {None} \cup {IntV(p) : p \in RowPks} : inst = User(id, Unset)
    /\ fields \in {fl \in RevFieldLists(MaxFields) :
                        Len(fl) > 0 /\ DistinctNames(fl)}
    /\ pre = [inst |-> None, rows |-> {}]
    /\ res = NoResult
    /\ ncalls = 0
    /\ ser = None
    /\ last = None
    /\ done = {}
    /\ warnings = {}
    /\ view = None
    /\ table = NoRows
    /\ tasks = NoTasks

\* Additional.objects.acreate(user=user): the new object caches the user,
\* and the user's reverse cache is set to the new object.
CreateAdditional ==
    /\ inst.id # None
    /\ inst.id.v \notin rows
    /\ rows' = rows \cup {inst.id.v}
    /\ inst' = [inst EXCEPT
                  !.additional = [AdditionalRow(inst.id.v) EXCEPT
                                    !.user = TheInstance]]
    /\ UNCHANGED <<fields, pre, res, ncalls>>
    /\ UNCHANGED <<lifeVars, tasks>>

\* additional.adelete(), by another holder of the row.
DeleteAdditional ==
    /\ inst.id # None
    /\ inst.id.v \in rows
    /\ rows' = rows \ {inst.id.v}
    /\ UNCHANGED <<inst, fields, pre, res, ncalls>>
    /\ UNCHANGED <<lifeVars, tasks>>

\* User.objects.aget(pk=...): a fresh instance, nothing cached.
ReloadUser ==
    /\ inst.id # None
    /\ inst.additional # Unset
    /\ inst' = [inst EXCEPT !.additional = Unset]
    /\ UNCHANGED <<rows, fields, pre, res, ncalls>>
    /\ UNCHANGED <<lifeVars, tasks>>

NextRev == CreateAdditional \/ DeleteAdditional \/ ReloadUser \/ Serialize

SpecRev == InitRev /\ [][NextRev]_vars

(***************************************************************************)
(* Claims about the reverse one-to-one (checked under SpecRev).            *)
(***************************************************************************)
AdditionalFieldOf(fl) == {i \in 1..Len(fl) : fl[i].source = "additional"}

\* The last call read the reverse one-to-one of an instance that had not
\* cached it.
ReadUncachedReverse ==
    /\ Called
    /\ pre.inst.additional = Unset
    /\ AdditionalFieldOf(fields) # {}

MaxItems == 2

BoolV(b) == [t |-> "bool", v |-> b]
NoKwargs == [k \in {} |-> None]

\* {**a, **b}: a key of b overrides the same key of a.
Merge(a, b) ==
    [k \in DOMAIN a \cup DOMAIN b |-> IF k \in DOMAIN b THEN b[k] ELSE a[k]]

\* MockObject(**validated_data)
MockObject(data) == Merge(data, [t |-> "object"])

\* The fields of the tests' SimpleSerializer and CrudSerializer.
SimpleFields ==
    <<Field("username", "CharField"), Field("age", "IntegerField")>>

FieldNames(flds) == {flds[i].field_name : i \in 1..Len(flds)}

ItemData(n) ==
    [t |-> "dict", username |-> StrV("user" \o ToString(n)), age |-> IntV(n)]

\* Input without the required "age".
InvalidData == [t |-> "dict", username |-> StrV("user0")]

\* Input of the wrong datatype: a list where a dictionary is expected.
BadTypeData == List(<<>>)

DefaultObject ==
    [t |-> "object", username |-> StrV("old"), age |-> IntV(0)]

\* bool(v)
Truthy(v) ==
    CASE v.t = "dict" -> DOMAIN v # {"t"}
      [] v.t = "list" -> Len(v.items) > 0
      [] v.t = "bool" -> v.v
      [] v.t \in {"None", "unset"} -> FALSE
      [] OTHER -> TRUE

IsMany(s) == s.cls = "ListSerializer"

Outcome(exc, val, s, log) ==
    [exc |-> exc, val |-> val, ser |-> s, log |-> log]

\* A call made while an operation runs: what is called, how (awaited, run
\* through sync_to_async, or called directly) and on what.
LEv(op, via, arg) == [op |-> op, via |-> via, arg |-> arg]

(***************************************************************************)
(* rest_framework's is_valid(): run_validation of the initial data.        *)
(***************************************************************************)
ItemValid(d) == d.t = "dict" /\ FieldNames(SimpleFields) \subseteq DOMAIN d

ItemValidated(d) == [k \in {"t"} \cup FieldNames(SimpleFields) |-> d[k]]

ItemErrors(d) ==
    IF d.t # "dict"
    THEN [t |-> "dict", non_field_errors |-> StrV("invalid")]
    ELSE [k \in {"t"} \cup (FieldNames(SimpleFields) \ DOMAIN d) |->
            IF k = "t" THEN "dict" ELSE StrV("required")]

RunValidation(s) ==
    LET d == s.initial_data IN
    IF IsMany(s)
    THEN IF \A i \in 1..Len(d.items) : ItemValid(d.items[i])
         THEN [s EXCEPT
                 !._validated_data =
                     List([i \in 1..Len(d.items) |-> ItemValidated(d.items[i])]),
                 !._errors = List(<<>>)]
         ELSE [s EXCEPT
                 !._validated_data = List(<<>>),
                 !._errors =
                     List([i \in 1..Len(d.items) |-> ItemErrors(d.items[i])])]
    ELSE IF ItemValid(d)
         THEN [s EXCEPT !._validated_data = ItemValidated(d),
                        !._errors = [t |-> "dict"]]
         ELSE [s EXCEPT !._validated_data = [t |-> "dict"],
                        !._errors = ItemErrors(d)]

IsValid(s) ==
    IF s.initial_data = Unset
    THEN Outcome("AssertionError", None, s, <<>>)
    ELSE LET s1 == IF s._validated_data = Unset THEN RunValidation(s) ELSE s
         IN Outcome("none", BoolV(~Truthy(s1._errors)), s1, <<>>)

(***************************************************************************)
(* rest_framework's get_initial().                                         *)
(***************************************************************************)
\* The declared fields' values present in the input, in field order.
RECURSIVE PresentItems(_, _, _)
PresentItems(flds, i, d) ==
    IF i > Len(flds) THEN <<>>
    ELSE IF flds[i].field_name \in DOMAIN d
    THEN <<<<flds[i].field_name, d[flds[i].field_name]>>>>
             \o PresentItems(flds, i + 1, d)
    ELSE PresentItems(flds, i + 1, d)

\* rest_framework's ListSerializer.to_representation, the synchronous one.
RECURSIVE SyncListLoop(_, _, _)
SyncListLoop(items, i, out) ==
    IF i > Len(items) THEN [exc |-> "none", val |-> List(out)]
    ELSE LET r == SyncToRepresentation(SimpleFields, items[i]) IN
         IF r.exc # "none" THEN [exc |-> r.exc, val |-> None]
         ELSE SyncListLoop(items, i + 1, Append(out, Dict(r.ret)))

GetInitial(s) ==
    LET log == <<LEv("get_initial", "direct", None)>> IN
    IF IsMany(s)
    THEN IF s.initial_data = Unset
         THEN [exc |-> "none", val |-> List(<<>>), log |-> log]
         ELSE LET r == SyncListLoop(s.initial_data.items, 1, <<>>) IN
              [exc |-> r.exc, val |-> r.val, log |-> log]
    ELSE IF s.initial_data = Unset
         THEN [exc |-> "none",
               val |-> Dict(<<<<"username", StrV("")>>, <<"age", None>>>>),
               log |-> log]
         ELSE IF s.initial_data.t # "dict"
         THEN [exc |-> "none", val |-> Dict(<<>>), log |-> log]
         ELSE [exc |-> "none",
               val |-> Dict(PresentItems(SimpleFields, 1, s.initial_data)),
               log |-> log]

(***************************************************************************)
(* ListSerializer.ato_representation                                       *)
(***************************************************************************)
RECURSIVE ListReprLoop(_, _, _, _, _, _)
ListReprLoop(s, items, i, db, out, log) ==
    IF i > Len(items) THEN [exc |-> "none", val |-> List(out), log |-> log]
    ELSE IF has_ato_representation([cls |-> s.child])
    THEN LET r == AtoRepresentation(SimpleFields, items[i], db)
             log1 == Append(log, LEv("child.ato_representation", "await",
                                     items[i]))
         IN IF r.exc # "none"
            THEN [exc |-> r.exc, val |-> None, log |-> log1]
            ELSE ListReprLoop(s, items, i + 1, db,
                              Append(out, Dict(r.ret)), log1)
    ELSE LET r == SyncToRepresentation(SimpleFields, items[i])
             log1 == Append(log, LEv("child.to_representation",
                                     "sync_to_async", items[i]))
         IN IF r.exc # "none"
            THEN [exc |-> r.exc, val |-> None, log |-> log1]
            ELSE ListReprLoop(s, items, i + 1, db,
                              Append(out, Dict(r.ret)), log1)

ListAtoRepresentation(s, data, db) ==
    LET iterable == IF data.t = "Manager" THEN ManagerAll(data) ELSE data IN
    ListReprLoop(s, Iterate(iterable, db), 1, db, <<>>, <<>>)

\* self.ato_representation(x), by the serializer's class.
SelfAtoRepresentation(s, x, db) ==
    LET call == <<LEv("ato_representation", "await", x)>> IN
    IF IsMany(s)
    THEN LET r == ListAtoRepresentation(s, x, db) IN
         [exc |-> r.exc, val |-> r.val, log |-> call \o r.log]
    ELSE LET r == AtoRepresentation(SimpleFields, x, db) IN
         [exc |-> r.exc,
          val |-> IF r.exc = "none" THEN Dict(r.ret) ELSE None,
          log |-> call]

(***************************************************************************)
(* BaseSerializer.adata                                                    *)
(***************************************************************************)
\* self._data = <r>; return self._data -- unless <r> raised.
StoreData(s, r) ==
    IF r.exc # "none" THEN Outcome(r.exc, None, s, r.log)
    ELSE Outcome("none", r.val, [s EXCEPT !._data = r.val], r.log)

\* A variant without the check that is_valid() has been called.
AdataUnguarded(s, db) ==
    IF s._data # Unset THEN Outcome("none", s._data, s, <<>>)
    ELSE IF s.instance # None /\ ~Truthy(s._errors)
    THEN StoreData(s, SelfAtoRepresentation(s, s.instance, db))
    ELSE IF s._validated_data # Unset /\ ~Truthy(s._errors)
    THEN StoreData(s, SelfAtoRepresentation(s, s._validated_data, db))
    ELSE StoreData(s, GetInitial(s))

\* A variant that does not look at the errors.
AdataIgnoringErrors(s, db) ==
    IF s.initial_data # Unset /\ s._validated_data = Unset
    THEN Outcome("AssertionError", None, s, <<>>)
    ELSE IF s._data # Unset THEN Outcome("none", s._data, s, <<>>)
    ELSE IF s.instance # None
    THEN StoreData(s, SelfAtoRepresentation(s, s.instance, db))
    ELSE IF s._validated_data # Unset
    THEN StoreData(s, SelfAtoRepresentation(s, s._validated_data, db))
    ELSE StoreData(s, GetInitial(s))

\* A variant that computes the data at every await.
AdataRecomputing(s, db) ==
    IF s.initial_data # Unset /\ s._validated_data = Unset
    THEN Outcome("AssertionError", None, s, <<>>)
    ELSE IF s.instance # None /\ ~Truthy(s._errors)
    THEN StoreData(s, SelfAtoRepresentation(s, s.instance, db))
    ELSE IF s._validated_data # Unset /\ ~Truthy(s._errors)
    THEN StoreData(s, SelfAtoRepresentation(s, s._validated_data, db))
    ELSE StoreData(s, GetInitial(s))

Adata(s, db) ==
    IF s.initial_data # Unset /\ s._validated_data = Unset
    THEN Outcome("AssertionError", None, s, <<>>)
    ELSE IF s._data # Unset THEN Outcome("none", s._data, s, <<>>)
    ELSE IF s.instance # None /\ ~Truthy(s._errors)
    THEN StoreData(s, SelfAtoRepresentation(s, s.instance, db))
    ELSE IF s._validated_data # Unset /\ ~Truthy(s._errors)
    THEN StoreData(s, SelfAtoRepresentation(s, s._validated_data, db))
    ELSE StoreData(s, GetInitial(s))

(***************************************************************************)
(* acreate / aupdate of the serializer's class (create / update for a      *)
(* rest_framework class).                                                  *)
(***************************************************************************)
ImplResult(impl, data) ==
    CASE impl = "object" -> Returned(MockObject(data))
      [] impl = "none" -> Returned(None)
      [] OTHER -> Raised("NotImplementedError")

\* Variant: every child is taken to have an acreate coroutine function.
has_acreateAlways(cls) == TRUE

\* obj has acreate and it is a coroutine function.
has_acreate(cls) == cls \in AsyncClasses

\* ListSerializer.acreate: the children are created one at a time, in order.
RECURSIVE ListAcreateLoop(_, _, _, _, _)
ListAcreateLoop(s, items, i, out, log) ==
    IF i > Len(items) THEN [exc |-> "none", val |-> List(out), log |-> log]
    ELSE
    LET r == ImplResult(s.impl, items[i])
        log1 == Append(log,
                    IF has_acreate(s.child)
                    THEN LEv("child.acreate", "await", items[i])
                    ELSE LEv("child.create", "sync_to_async", items[i]))
    IN IF r.exc # "none" THEN [exc |-> r.exc, val |-> None, log |-> log1]
       ELSE ListAcreateLoop(s, items, i + 1, Append(out, r.val), log1)

ListAcreate(s, validated_data) ==
    LET r == ListAcreateLoop(s, validated_data.items, 1, <<>>, <<>>) IN
    [exc |-> r.exc, val |-> r.val,
     log |-> <<LEv("acreate", "await", validated_data)>> \o r.log]

\* self.acreate(validated_data)
SelfAcreate(s, validated_data) ==
    IF IsMany(s) THEN ListAcreate(s, validated_data)
    ELSE LET r == ImplResult(s.impl, validated_data) IN
         [exc |-> r.exc, val |-> r.val,
          log |-> <<LEv("acreate", "await", validated_data)>>]

\* self.aupdate(instance, validated_data)
SelfAupdate(s, instance, validated_data) ==
    LET log == <<LEv("aupdate", "await",
                     [instance |-> instance, data |-> validated_data])>>
    IN IF IsMany(s)
       THEN [exc |-> "NotImplementedError", val |-> None, log |-> log]
       ELSE LET r == ImplResult(s.impl, validated_data) IN
            [exc |-> r.exc, val |-> r.val, log |-> log]

(***************************************************************************)
(* BaseSerializer.asave and ListSerializer.asave                           *)
(***************************************************************************)
\* A variant that asserts before it assigns.
StoreInstanceAsserting(s, r) ==
    IF r.exc # "none" THEN Outcome(r.exc, None, s, r.log)
    ELSE IF r.val = None
    THEN Outcome("AssertionError", None, s, r.log)
    ELSE Outcome("none", r.val, [s EXCEPT !.instance = r.val], r.log)

\* self.instance = await <r>; assert self.instance is not None; return it
StoreInstance(s, r) ==
    IF r.exc # "none" THEN Outcome(r.exc, None, s, r.log)
    ELSE IF r.val = None
    THEN Outcome("AssertionError", None, [s EXCEPT !.instance = None], r.log)
    ELSE Outcome("none", r.val, [s EXCEPT !.instance = r.val], r.log)

\* A variant in which a validated value overrides a keyword argument.
SaveDataKwargsFirst(validated_data, kwargs) == Merge(kwargs, validated_data)

\* {**self.validated_data, **kwargs}
SaveData(validated_data, kwargs) == Merge(validated_data, kwargs)

\* A variant without the check that the data has not been accessed.
BaseAsaveAfterData(s, kwargs) ==
    IF s._errors = Unset THEN Outcome("AssertionError", None, s, <<>>)
    ELSE IF Truthy(s._errors) THEN Outcome("AssertionError", None, s, <<>>)
    ELSE IF "commit" \in DOMAIN kwargs
    THEN Outcome("AssertionError", None, s, <<>>)
    ELSE LET validated_data == SaveData(s._validated_data, kwargs) IN
         IF s.instance # None
         THEN StoreInstance(s, SelfAupdate(s, s.instance, validated_data))
         ELSE StoreInstance(s, SelfAcreate(s, validated_data))

BaseAsave(s, kwargs) ==
    IF s._errors = Unset THEN Outcome("AssertionError", None, s, <<>>)
    ELSE IF Truthy(s._errors) THEN Outcome("AssertionError", None, s, <<>>)
    ELSE IF "commit" \in DOMAIN kwargs
    THEN Outcome("AssertionError", None, s, <<>>)
    ELSE IF s._data # Unset THEN Outcome("AssertionError", None, s, <<>>)
    ELSE LET validated_data == SaveData(s._validated_data, kwargs) IN
         IF s.instance # None
         THEN StoreInstance(s, SelfAupdate(s, s.instance, validated_data))
         ELSE StoreInstance(s, SelfAcreate(s, validated_data))

\* [{**attrs, **kwargs} for attrs in self.validated_data]
ListSaveData(validated_data, kwargs) ==
    List([i \in 1..Len(validated_data.items) |->
            SaveData(validated_data.items[i], kwargs)])

\* A variant that creates when it should update.
ListAsaveAlwaysCreate(s, kwargs) ==
    IF "commit" \in DOMAIN kwargs THEN Outcome("AssertionError", None, s, <<>>)
    ELSE IF s._validated_data = Unset
    THEN Outcome("AssertionError", None, s, <<>>)
    ELSE StoreInstance(s, SelfAcreate(s, ListSaveData(s._validated_data, kwargs)))

\* A variant with all the checks of BaseSerializer.asave.
ListAsaveChecking(s, kwargs) ==
    IF s._errors = Unset THEN Outcome("AssertionError", None, s, <<>>)
    ELSE IF Truthy(s._errors) THEN Outcome("AssertionError", None, s, <<>>)
    ELSE IF "commit" \in DOMAIN kwargs
    THEN Outcome("AssertionError", None, s, <<>>)
    ELSE IF s._data # Unset THEN Outcome("AssertionError", None, s, <<>>)
    ELSE LET validated_data == ListSaveData(s._validated_data, kwargs) IN
         IF s.instance # None
         THEN StoreInstance(s, SelfAupdate(s, s.instance, validated_data))
         ELSE StoreInstance(s, SelfAcreate(s, validated_data))

\* self.validated_data is rest_framework's property, which asserts that
\* is_valid() has been called.
ListAsave(s, kwargs) ==
    IF "commit" \in DOMAIN kwargs THEN Outcome("AssertionError", None, s, <<>>)
    ELSE IF s._validated_data = Unset
    THEN Outcome("AssertionError", None, s, <<>>)
    ELSE LET validated_data == ListSaveData(s._validated_data, kwargs) IN
         IF s.instance # None
         THEN StoreInstance(s, SelfAupdate(s, s.instance, validated_data))
         ELSE StoreInstance(s, SelfAcreate(s, validated_data))

\* serializer.asave(**kwargs), by the serializer's class.
Asave(s, kwargs) ==
    IF IsMany(s) THEN ListAsave(s, kwargs) ELSE BaseAsave(s, kwargs)

(***************************************************************************)
(* rest_framework's synchronous data and save(), which the shims fall back *)
(* to for a serializer without adata / asave.                              *)
(***************************************************************************)
SelfToRepresentation(s, x) ==
    LET r == SyncToRepresentation(SimpleFields, x) IN
    [exc |-> r.exc, val |-> IF r.exc = "none" THEN Dict(r.ret) ELSE None,
     log |-> <<LEv("to_representation", "direct", x)>>]

SyncData(s) ==
    IF s.initial_data # Unset /\ s._validated_data = Unset
    THEN Outcome("AssertionError", None, s, <<>>)
    ELSE IF s._data # Unset THEN Outcome("none", s._data, s, <<>>)
    ELSE IF s.instance # None /\ ~Truthy(s._errors)
    THEN StoreData(s, SelfToRepresentation(s, s.instance))
    ELSE IF s._validated_data # Unset /\ ~Truthy(s._errors)
    THEN StoreData(s, SelfToRepresentation(s, s._validated_data))
    ELSE StoreData(s, GetInitial(s))

SyncSave(s, kwargs) ==
    IF s._errors = Unset THEN Outcome("AssertionError", None, s, <<>>)
    ELSE IF Truthy(s._errors) THEN Outcome("AssertionError", None, s, <<>>)
    ELSE IF "commit" \in DOMAIN kwargs
    THEN Outcome("AssertionError", None, s, <<>>)
    ELSE IF s._data # Unset THEN Outcome("AssertionError", None, s, <<>>)
    ELSE LET validated_data == Merge(s._validated_data, kwargs)
             r == ImplResult(s.impl, validated_data)
         IN IF s.instance # None
            THEN StoreInstance(s,
                    [exc |-> r.exc, val |-> r.val,
                     log |-> <<LEv("update", "direct",
                                   [instance |-> s.instance,
                                    data |-> validated_data])>>])
            ELSE StoreInstance(s,
                    [exc |-> r.exc, val |-> r.val,
                     log |-> <<LEv("create", "direct", validated_data)>>])

(***************************************************************************)
(* The shims: serializer_adata and serializer_asave                        *)
(***************************************************************************)
\* hasattr(obj, "adata"), and then the assertion that the class attribute is
\* an async property.
has_adata(s) ==
    CASE s.cls \in AsyncClasses -> Returned(TRUE)
      [] s.cls = "OddSerializer" -> Raised("AssertionError")
      [] OTHER -> Returned(FALSE)

has_asave(s) == s.cls \in AsyncClasses

Via(step, r) == Outcome(r.exc, r.val, r.ser, <<step>> \o r.log)

\* A variant that always reads the synchronous data.
SerializerAdataSyncOnly(s, db) ==
    Via(LEv("data", "sync_to_async", None), SyncData(s))

SerializerAdata(s, db) ==
    LET h == has_adata(s) IN
    IF h.exc # "none" THEN Outcome(h.exc, None, s, <<>>)
    ELSE IF h.val THEN Via(LEv("adata", "await", None), Adata(s, db))
    ELSE Via(LEv("data", "sync_to_async", None), SyncData(s))

SerializerAsave(s, kwargs) ==
    IF has_asave(s) THEN Via(LEv("asave", "await", kwargs), Asave(s, kwargs))
    ELSE Via(LEv("save", "sync_to_async", kwargs), SyncSave(s, kwargs))

(***************************************************************************)
(* Spec: one serializer, constructed with or without an instance and with  *)
(* or without input data, and the operations on it in any order.           *)
(***************************************************************************)
\* Input for many=True: item i is valid or lacks its "age".
ItemLists ==
    UNION {[1..n -> {ItemData(i) : i \in 1..MaxItems} \cup {InvalidData}] :
              n \in 0..MaxItems}

NewSerializer(cls, child, impl, data, instance) ==
    [cls |-> cls, child |-> child, impl |-> impl, initial_data |-> data,
     instance |-> instance, _validated_data |-> Unset, _errors |-> Unset,
     _data |-> Unset]

Serializers ==
    {NewSerializer("Serializer", "", impl, data, instance) :
        impl \in {"object", "none", "base"},
        data \in {Unset, ItemData(1), InvalidData, BadTypeData},
        instance \in {None, DefaultObject}}
    \cup
    {NewSerializer(cls, "", "object", data, instance) :
        cls \in {"DRFSerializer", "OddSerializer"},
        data \in {Unset, ItemData(1), InvalidData, BadTypeData},
        instance \in {None, DefaultObject}}
    \cup
    {NewSerializer("ListSerializer", child, impl, data, instance) :
        child \in {"Serializer", "DRFSerializer"},
        impl \in {"object", "base"},
        data \in {Unset} \cup {List(l) : l \in ItemLists},
        instance \in {None, List(<<DefaultObject>>)}}

KwargsChoices ==
    {NoKwargs, [age |-> IntV(99)], [owner |-> StrV("o")],
     [commit |-> BoolV(FALSE)]}

NoOp ==
    [op |-> "", kwargs |-> NoKwargs, exc |-> "none", val |-> None,
     log |-> <<>>, pre |-> None, done |-> {}]

Init ==
    /\ ser \in Serializers
    /\ last = NoOp
    /\ done = {}
    /\ warnings = {}
    /\ view = None
    /\ table = NoRows
    /\ tasks = NoTasks
    /\ rows = {}
    /\ inst = None
    /\ fields = <<>>
    /\ pre = [inst |-> None, rows |-> {}]
    /\ res = NoResult
    /\ ncalls = 0

\* The operation op(**kwargs) ran on ser with outcome r.
Ran(op, kwargs, r) ==
    /\ last' = [op |-> op, kwargs |-> kwargs, exc |-> r.exc, val |-> r.val,
                log |-> r.log, pre |-> ser, done |-> done]
    /\ ser' = r.ser
    /\ done' = IF r.exc = "none" THEN done \cup {op} ELSE done
    /\ UNCHANGED <<warnings, view, table>>
    /\ UNCHANGED <<reprVars, tasks>>

\* serializer.is_valid()
CallIsValid == Ran("is_valid", NoKwargs, IsValid(ser))

\* await serializer.adata
AwaitAdata ==
    /\ ser.cls \in AsyncClasses
    /\ Ran("adata", NoKwargs, Adata(ser, rows))

\* await serializer.asave(**kwargs)
AwaitAsave ==
    /\ ser.cls \in AsyncClasses
    /\ \E kwargs \in KwargsChoices : Ran("asave", kwargs, Asave(ser, kwargs))

\* await serializer_adata(serializer)
AwaitSerializerAdata ==
    Ran("serializer_adata", NoKwargs, SerializerAdata(ser, rows))

\* await serializer_asave(serializer, **kwargs)
AwaitSerializerAsave ==
    \E kwargs \in KwargsChoices :
        Ran("serializer_asave", kwargs, SerializerAsave(ser, kwargs))

Next ==
    \/ CallIsValid
    \/ AwaitAdata
    \/ AwaitAsave
    \/ AwaitSerializerAdata
    \/ AwaitSerializerAsave

Spec == Init /\ [][Next]_vars

(***************************************************************************)
(* Claims about the serializer's operations (checked under Spec).          *)
(***************************************************************************)
\* Positions in the last operation's log of the calls named in ops.
CallsOf(ops) == {i \in 1..Len(last.log) : last.log[i].op \in ops}

ReprCalls ==
    CallsOf({"ato_representation", "child.ato_representation",
             "to_representation", "child.to_representation"})

SaveCalls ==
    CallsOf({"acreate", "aupdate", "child.acreate", "child.create",
             "create", "update"})

\* The last operation awaited the adata of an adrf serializer.
AdataAwaited ==
    \/ last.op = "adata"
    \/ last.op = "serializer_adata" /\ last.pre.cls \in AsyncClasses

\* The last operation awaited asave() of an adrf serializer.
AsaveAwaited ==
    \/ last.op = "asave"
    \/ last.op = "serializer_asave" /\ last.pre.cls \in AsyncClasses

BaseAsaveRan == AsaveAwaited /\ ~IsMany(last.pre)
ListAsaveRan == AsaveAwaited /\ IsMany(last.pre)

SameOutcome(r) == last.exc = r.exc /\ last.val = r.val /\ ser = r.ser

C3_WarnsForPureDRF ==
    (/\ last.op \in {"serializer_adata", "serializer_asave"}
     /\ last.pre.cls = "DRFSerializer") =>
        \E w \in warnings :
            /\ w.category = "PendingDeprecationWarning"
            /\ w.message = "Pure DRF serializer"

\* C5: adata on a serializer that has initial data and has not been
\* validated raises AssertionError, calls no ato_representation and leaves
\* _data unset.
C5_NotValidated ==
    (/\ AdataAwaited
     /\ last.pre.initial_data # Unset
     /\ last.pre._validated_data = Unset) =>
        /\ last.exc = "AssertionError"
        /\ ReprCalls = {}
        /\ ser._data = Unset

C5_Witness ==
    /\ last.op = "adata"
    /\ last.pre.initial_data = ItemData(1)
    /\ last.pre._validated_data = Unset
    /\ last.pre.instance # None
    /\ last.exc = "AssertionError"

\* C6: adata on a serializer that has errors returns get_initial() and does
\* not invoke ato_representation.
C6_InvalidGivesInitial ==
    (AdataAwaited /\ Truthy(last.pre._errors)) =>
        /\ ReprCalls = {}
        /\ last.exc = GetInitial(last.pre).exc
        /\ last.val = GetInitial(last.pre).val
        /\ last.exc = "none" => ser._data = last.val

C6_Witness ==
    /\ last.op = "adata"
    /\ Truthy(last.pre._errors)
    /\ last.pre.instance # None
    /\ last.pre._data = Unset
    /\ last.exc = "none"
    /\ last.val = Dict(<<<<"username", StrV("user0")>>>>)

\* data is validated_data merged with kwargs, a kwarg overriding.
IsMerged(data, validated_data, kwargs) ==
    /\ DOMAIN data = DOMAIN validated_data \cup DOMAIN kwargs
    /\ \A k \in DOMAIN kwargs : data[k] = kwargs[k]
    /\ \A k \in DOMAIN validated_data \ DOMAIN kwargs :
        data[k] = validated_data[k]

\* C7: a successful BaseSerializer.asave calls exactly one of aupdate and
\* acreate, once: aupdate(instance, data) if there was an instance, acreate(
\* data) otherwise, data being validated_data overridden by kwargs; what the
\* call returned is stored in self.instance and returned.
C7_SaveCallsOne ==
    (BaseAsaveRan /\ last.exc = "none") =>
        /\ Cardinality(CallsOf({"acreate", "aupdate"})) = 1
        /\ \A i \in CallsOf({"acreate", "aupdate"}) :
            LET e == last.log[i]
                data == IF e.op = "aupdate" THEN e.arg.data ELSE e.arg
            IN /\ e.via = "await"
               /\ e.op = "aupdate" <=> last.pre.instance # None
               /\ e.op = "aupdate" => e.arg.instance = last.pre.instance
               /\ IsMerged(data, last.pre._validated_data, last.kwargs)
               /\ last.val = ImplResult(last.pre.impl, data).val
        /\ last.val # None
        /\ ser.instance = last.val

C7_Witness ==
    /\ last.op = "asave"
    /\ ~IsMany(last.pre)
    /\ last.exc = "none"
    /\ last.pre.instance = DefaultObject
    /\ last.kwargs = [age |-> IntV(99)]
    /\ ser.instance.age = IntV(99)
    /\ last.pre._validated_data.age = IntV(1)

AsaveRefused ==
    \/ last.pre._errors = Unset
    \/ Truthy(last.pre._errors)
    \/ "commit" \in DOMAIN last.kwargs
    \/ last.pre._data # Unset

\* C8: BaseSerializer.asave raises AssertionError when is_valid() has not
\* been called, when there are errors, when 'commit' is passed or when the
\* data has been accessed, and then calls neither acreate nor aupdate and
\* leaves self.instance alone; so an asave that succeeds comes after an
\* is_valid and before any adata that returned.
C8_SaveProtocol ==
    BaseAsaveRan =>
        /\ AsaveRefused =>
            /\ last.exc = "AssertionError"
            /\ SaveCalls = {}
            /\ ser.instance = last.pre.instance
        /\ last.exc = "none" =>
            /\ "is_valid" \in last.done
            /\ last.done \cap {"adata", "serializer_adata"} = {}

\* asave was refused only because the data had been accessed.
C8_Witness ==
    /\ last.op = "asave"
    /\ ~IsMany(last.pre)
    /\ last.pre._data # Unset
    /\ last.pre._errors = [t |-> "dict"]
    /\ "commit" \notin DOMAIN last.kwargs
    /\ last.exc = "AssertionError"

\* The last operation's calls to the child's acreate / create, in order.
ChildCreates == SelectSeq(last.log, LAMBDA e : e.op \in {"child.acreate", "child.create"})

\* C9: asave of a many=True serializer without instance creates one object
\* per validated item, in order, and returns them as a list; each through
\* the child's acreate if that is a coroutine function, else through the
\* child's create run by sync_to_async.
C9_ListCreate ==
    (ListAsaveRan /\ last.pre.instance = None /\ last.exc = "none") =>
        LET items == last.pre._validated_data.items
            n == Len(items)
        IN /\ last.val.t = "list"
           /\ Len(last.val.items) = n
           /\ Len(ChildCreates) = n
           /\ \A i \in 1..n :
                LET e == ChildCreates[i] IN
                /\ IsMerged(e.arg, items[i], last.kwargs)
                /\ last.val.items[i] = MockObject(e.arg)
                /\ IF last.pre.child \in AsyncClasses
                   THEN e.op = "child.acreate" /\ e.via = "await"
                   ELSE e.op = "child.create" /\ e.via = "sync_to_async"
           /\ CallsOf({"aupdate"}) = {}
           /\ ser.instance = last.val

C9_Witness ==
    /\ last.op = "serializer_asave"
    /\ IsMany(last.pre)
    /\ last.pre.instance = None
    /\ last.pre.child = "DRFSerializer"
    /\ last.exc = "none"
    /\ Len(last.val.items) = 2
    /\ last.val.items[1] # last.val.items[2]

\* C10 (as stated): ListSerializer.asave on a list serializer that has an
\* instance raises NotImplementedError, never calls acreate and leaves
\* self.instance unchanged.
C10_AsStated ==
    (ListAsaveRan /\ last.pre.instance # None) =>
        /\ last.exc = "NotImplementedError"
        /\ CallsOf({"acreate", "child.acreate", "child.create"}) = {}
        /\ ser.instance = last.pre.instance

\* C10 (amended): ListSerializer.asave on a list serializer that has an
\* instance never returns, never calls acreate and leaves self.instance
\* unchanged; it raises NotImplementedError from aupdate when is_valid() has
\* been called and no 'commit' is passed, and AssertionError otherwise.
C10_ListUpdate ==
    (ListAsaveRan /\ last.pre.instance # None) =>
        /\ last.exc =
            (IF "commit" \in DOMAIN last.kwargs
                \/ last.pre._validated_data = Unset
             THEN "AssertionError" ELSE "NotImplementedError")
        /\ last.exc = "NotImplementedError" <=> CallsOf({"aupdate"}) # {}
        /\ CallsOf({"acreate", "child.acreate", "child.create"}) = {}
        /\ ser.instance = last.pre.instance

C10_Witness ==
    /\ last.op = "asave"
    /\ IsMany(last.pre)
    /\ last.pre.instance = List(<<DefaultObject>>)
    /\ last.exc = "NotImplementedError"
    /\ Len(last.pre._validated_data.items) = 2

(***************************************************************************)
(* The generic views' mixins.  The view's serializer is a ModelSerializer  *)
(* of SimpleUser with all its fields; a row of the table is                *)
(* [username |-> ..., password |-> ..., age |-> ...].                      *)
(***************************************************************************)
MaxUsers == 2

Usernames == {StrV("a"), StrV("b")}
Passwords == {StrV("p")}
Ages == {IntV(1), IntV(2)}

SimpleUserFields ==
    <<Field("id", "IntegerField"), Field("username", "CharField"),
      Field("password", "CharField"), Field("age", "IntegerField")>>

\* The fields a request may write; "id" is read-only.
Writable == {"username", "password", "age"}

\* The SimpleUser instance of the row pk.
SimpleUser(pk, row) ==
    [t |-> "Model", model |-> "SimpleUser", id |-> IntV(pk),
     username |-> row.username, password |-> row.password, age |-> row.age]

\* request.data: any subset of the writable fields, and two requests whose
\* age is not a number.
RequestData ==
    LET choice == [username : Usernames \cup {None},
                   password : Passwords \cup {None},
                   age : Ages \cup {None}]
    IN {[k \in {j \in Writable : c[j] # None} |-> c[k]] : c \in choice}
       \cup {[age |-> StrV("old")],
             [username |-> StrV("a"), password |-> StrV("p"),
              age |-> StrV("old")]}

\* The view class: perform says whether its perform_create, perform_update
\* and perform_destroy are coroutine functions ("async") or plain functions
\* ("sync"); use_sync is its use_sync_perform_<op> attribute, FALSE also when
\* the class has none.
Views == [perform : {"async", "sync"}, use_sync : BOOLEAN]

ClassName(v) ==
    IF v.perform = "async" THEN "AsyncSimpleUserView"
    ELSE IF v.use_sync THEN "AsyncSimpleUserViewHybridNoWarn"
    ELSE "AsyncSimpleUserViewHybrid"

\* A step of a request handler: what is called and how.
VEv(op, via) == [op |-> op, via |-> via]

\* warnings.warn(message, PendingDeprecationWarning)
Warn(message) == [op |-> "warn", via |-> message]

\* What a handler leaves behind: the exception it raised or its response,
\* the table, and the steps it took.
Handled(exc, status, data, tbl, log) ==
    [exc |-> exc, status |-> status, data |-> data, table |-> tbl, log |-> log]

(***************************************************************************)
(* The serializer's part: validation, saving, representation.              *)
(***************************************************************************)
\* The fields of the input that do not validate: a required field that is
\* missing (unless partial), an age that is not a number, a username that
\* another row has.
FieldErrors(data, partial, tbl, pk) ==
    {k \in Writable :
        \/ k \notin DOMAIN data /\ ~partial
        \/ k \in DOMAIN data /\ k = "age" /\ data[k].t # "int"
        \/ /\ k \in DOMAIN data
           /\ k = "username"
           /\ \E q \in DOMAIN tbl \ {pk} : tbl[q].username = data[k]}

\* A variant of is_valid() that does not raise.
IsValidNotRaising(data, partial, tbl, pk) == Returned(data)

\* serializer.is_valid(raise_exception=True): the validated data.
IsValidRaising(data, partial, tbl, pk) ==
    IF FieldErrors(data, partial, tbl, pk) # {}
    THEN Raised("ValidationError")
    ELSE Returned(data)

\* serializer_ais_valid(serializer, raise_exception=True): is_valid awaited.
serializer_ais_valid(data, partial, tbl, pk) ==
    IsValidRaising(data, partial, tbl, pk)

\* The value a column gets when the arguments do not give one.
ColumnDefault(k) == IF k = "age" THEN None ELSE StrV("")

Max(S) == CHOOSE x \in S : \A y \in S : y <= x

NextPk(tbl) == Max(DOMAIN tbl \cup {0}) + 1

\* ModelSerializer.acreate: ModelClass._default_manager.acreate(**
\* validated_data).
ModelAcreate(tbl, validated_data) ==
    LET pk == NextPk(tbl)
        row == [k \in Writable |->
                  IF k \in DOMAIN validated_data THEN validated_data[k]
                  ELSE ColumnDefault(k)]
    IN [instance |-> SimpleUser(pk, row),
        table |-> [p \in DOMAIN tbl \cup {pk} |->
                     IF p = pk THEN row ELSE tbl[p]]]

\* ModelSerializer.aupdate: setattr for each validated attribute, then
\* instance.asave().
ModelAupdate(tbl, instance, validated_data) ==
    LET updated == [k \in DOMAIN instance |->
                      IF k \in DOMAIN validated_data THEN validated_data[k]
                      ELSE instance[k]]
    IN [instance |-> updated,
        table |-> [tbl EXCEPT ![instance.id.v] =
                     [k \in Writable |-> updated[k]]]]

\* serializer_adata of the serializer of a saved or retrieved instance.
Representation(instance) ==
    Dict(AtoRepresentation(SimpleUserFields, instance, {}).ret)

(***************************************************************************)
(* The handlers of the mixins.                                             *)
(***************************************************************************)
\* aget_object_or_404(queryset, pk=pk): a variant that answers None for a
\* missing row.
aget_object_or_None(tbl, pk) ==
    IF pk \in DOMAIN tbl THEN Returned(SimpleUser(pk, tbl[pk]))
    ELSE Returned(None)

\* aget_object_or_404(queryset, pk=pk)
aget_object_or_404(tbl, pk) ==
    IF pk \in DOMAIN tbl THEN Returned(SimpleUser(pk, tbl[pk]))
    ELSE Raised("Http404")

\* GenericAPIView.aget_object(): the row the request's pk names.
aget_object(tbl, pk) == aget_object_or_404(tbl, pk)

\* The response the view answers an exception of the handler with.
ExceptionResponse(exc, tbl, log) ==
    CASE exc = "Http404" ->
            Handled(exc, 404,
                    [detail |-> StrV("No SimpleUser matches the given query.")],
                    tbl, log)
      [] exc = "ValidationError" -> Handled(exc, 400, None, tbl, log)
      [] OTHER -> Handled(exc, 500, None, tbl, log)

\* A variant that warns whatever use_sync_perform_<op> says.
HookWarningsIgnoringFlag(v, op) ==
    IF v.perform = "async" THEN <<>>
    ELSE <<Warn("Non async perform_" \o op \o "(): " \o ClassName(v))>>

\* The warning that precedes a hook that is not a coroutine function.
HookWarnings(v, op) ==
    IF v.perform = "async" THEN <<>>
    ELSE IF ~v.use_sync
    THEN <<Warn("Non async perform_" \o op \o "(): " \o ClassName(v))>>
    ELSE <<>>

\* A variant that only awaits hooks that are coroutine functions.
HookCallAsyncOnly(v, op) ==
    IF v.perform = "async" THEN <<VEv("perform_" \o op, "await")>> ELSE <<>>

\* The call of the hook: awaited, or run through sync_to_async.
HookCall(v, op) ==
    IF v.perform = "async" THEN <<VEv("perform_" \o op, "await")>>
    ELSE <<VEv("perform_" \o op, "sync_to_async")>>

\* The hook ran if its call is among the steps.
HookRan(steps) == \E i \in 1..Len(steps) : steps[i].via # "" /\ steps[i].op # "warn"

\* What the hook of the view does: the async one awaits serializer_asave
\* (instance.adelete), the plain one calls serializer.save (instance.delete).
HookBody(v, op) ==
    IF op = "destroy"
    THEN <<VEv(IF v.perform = "async" THEN "adelete" ELSE "delete", "")>>
    ELSE <<VEv(IF v.perform = "async" THEN "serializer_asave" ELSE "save", "")>>

\* CreateModelMixin.create
Create(v, data, tbl) ==
    LET valid == IsValidRaising(data, FALSE, tbl, 0)
        log1 == <<VEv("is_valid", "sync_to_async")>>
    IN
    IF valid.exc # "none" THEN ExceptionResponse(valid.exc, tbl, log1)
    ELSE
    LET hook == HookCall(v, "create")
        saved == IF HookRan(hook) THEN ModelAcreate(tbl, valid.val)
                 ELSE [instance |-> None, table |-> tbl]
        log2 == log1 \o HookWarnings(v, "create") \o hook
                \o (IF HookRan(hook) THEN HookBody(v, "create") ELSE <<>>)
                \o <<VEv("serializer_adata", "await")>>
    IN
    IF saved.instance = None THEN ExceptionResponse("AssertionError", tbl, log2)
    ELSE Handled("none", 201, Representation(saved.instance), saved.table,
                 log2 \o <<VEv("Response", "")>>)

\* RetrieveModelMixin.retrieve
Retrieve(v, pk, tbl) ==
    LET got == aget_object(tbl, pk)
        log1 == <<VEv("aget_object", "await")>>
    IN
    IF got.exc # "none" THEN ExceptionResponse(got.exc, tbl, log1)
    ELSE IF got.val = None THEN ExceptionResponse("AttributeError", tbl, log1)
    ELSE Handled("none", 200, Representation(got.val), tbl,
                 log1 \o <<VEv("serializer_adata", "await"),
                           VEv("Response", "")>>)

\* UpdateModelMixin.update
Update(v, pk, data, partial, tbl) ==
    LET got == aget_object(tbl, pk)
        log1 == <<VEv("aget_object", "await")>>
    IN
    IF got.exc # "none" THEN ExceptionResponse(got.exc, tbl, log1)
    ELSE IF got.val = None THEN ExceptionResponse("AttributeError", tbl, log1)
    ELSE
    LET valid == serializer_ais_valid(data, partial, tbl, pk)
        log2 == Append(log1, VEv("serializer_ais_valid", "await"))
    IN
    IF valid.exc # "none" THEN ExceptionResponse(valid.exc, tbl, log2)
    ELSE
    LET hook == HookCall(v, "update")
        saved == IF HookRan(hook) THEN ModelAupdate(tbl, got.val, valid.val)
                 ELSE [instance |-> got.val, table |-> tbl]
        log3 == log2 \o HookWarnings(v, "update") \o hook
                \o (IF HookRan(hook) THEN HookBody(v, "update") ELSE <<>>)
                \o <<VEv("serializer_adata", "await"), VEv("Response", "")>>
    IN Handled("none", 200, Representation(saved.instance), saved.table, log3)

\* A variant that forgets partial=True.
PartialUpdateAsUpdate(v, pk, data, tbl) == Update(v, pk, data, FALSE, tbl)

\* UpdateModelMixin.partial_update
PartialUpdate(v, pk, data, tbl) == Update(v, pk, data, TRUE, tbl)

\* DestroyModelMixin.destroy
Destroy(v, pk, tbl) ==
    LET got == aget_object(tbl, pk)
        log1 == <<VEv("aget_object", "await")>>
    IN
    IF got.exc # "none" THEN ExceptionResponse(got.exc, tbl, log1)
    ELSE
    LET hook == HookCall(v, "destroy")
        log2 == log1 \o HookWarnings(v, "destroy") \o hook
                \o (IF HookRan(hook) THEN HookBody(v, "destroy") ELSE <<>>)
    IN
    IF got.val = None THEN ExceptionResponse("AttributeError", tbl, log2)
    ELSE Handled("none", 204, None,
                 IF HookRan(hook)
                 THEN [p \in DOMAIN tbl \ {pk} |-> tbl[p]] ELSE tbl,
                 log2 \o <<VEv("Response", "")>>)

(***************************************************************************)
(* SpecView: requests to one view class, on a table that starts empty.     *)
(***************************************************************************)
Pks == 1..MaxUsers

NoRequest ==
    [op |-> "", pk |-> 0, data |-> NoRows, exc |-> "none", status |-> 0,
     body |-> None, log |-> <<>>, pre |-> NoRows]

InitView ==
    /\ view \in Views
    /\ table = NoRows
    /\ tasks = NoTasks
    /\ last = NoRequest
    /\ warnings = {}
    /\ ser = None
    /\ done = {}
    /\ rows = {}
    /\ inst = None
    /\ fields = <<>>
    /\ pre = [inst |-> None, rows |-> {}]
    /\ res = NoResult
    /\ ncalls = 0

\* The request op(pk, data) was handled with outcome r.
Answered(op, pk, data, r) ==
    /\ last' = [op |-> op, pk |-> pk, data |-> data, exc |-> r.exc,
                status |-> r.status, body |-> r.data, log |-> r.log,
                pre |-> table]
    /\ table' = r.table
    /\ warnings' = warnings \cup
         {[category |-> "PendingDeprecationWarning", message |-> r.log[i].via] :
            i \in {j \in 1..Len(r.log) : r.log[j].op = "warn"}}
    /\ UNCHANGED <<view, ser, done>>
    /\ UNCHANGED <<reprVars, tasks>>

\* POST /
Post ==
    /\ NextPk(table) <= MaxUsers
    /\ \E data \in RequestData :
        Answered("create", 0, data, Create(view, data, table))

\* GET /pk
Get == \E pk \in Pks : Answered("retrieve", pk, NoRows, Retrieve(view, pk, table))

\* PUT /pk, with a value for every writable field
Put ==
    \E pk \in Pks, data \in {d \in RequestData : DOMAIN d = Writable} :
        Answered("update", pk, data, Update(view, pk, data, FALSE, table))

\* PATCH /pk
Patch ==
    \E pk \in Pks, data \in RequestData :
        Answered("partial_update", pk, data,
                 PartialUpdate(view, pk, data, table))

\* DELETE /pk
Delete == \E pk \in Pks : Answered("destroy", pk, NoRows, Destroy(view, pk, table))

NextView == Post \/ Get \/ Put \/ Patch \/ Delete

SpecView == InitView /\ [][NextView]_vars

(***************************************************************************)
(* Claims about the mixins, checked under SpecView.                        *)
(***************************************************************************)
\* The steps of the last request, without the warnings.
Steps == SelectSeq(last.log, LAMBDA e : e.op # "warn")

\* The number of times op is among the steps of the last request.
Times(op) == Cardinality({i \in 1..Len(last.log) : last.log[i].op = op})

\* The rows the last request added to, and removed from, the table.
Added == DOMAIN table \ DOMAIN last.pre
Removed == DOMAIN last.pre \ DOMAIN table

\* The rows of p that the last request left as they were.
Kept(p) == p \in DOMAIN table /\ p \in DOMAIN last.pre /\ table[p] = last.pre[p]

CreateRejected ==
    last.op = "create" /\ FieldErrors(last.data, FALSE, last.pre, 0) # {}

CreateAccepted ==
    last.op = "create" /\ FieldErrors(last.data, FALSE, last.pre, 0) = {}

\* C16: create validates, then runs perform_create, then reads the
\* serialized data, then answers 201 with that data.  When validation
\* fails perform_create is not run and nothing is created; on success
\* exactly one object has been created and the response data describes it.
C16_CreateInOrder ==
    /\ CreateRejected =>
         /\ last.exc = "ValidationError"
         /\ last.status # 201
         /\ Times("perform_create") = 0
         /\ table = last.pre
    /\ CreateAccepted =>
         /\ last.status = 201
         /\ \E hook \in {"serializer_asave", "save"} :
              Steps = <<VEv("is_valid", "sync_to_async"),
                        VEv("perform_create",
                            IF view.perform = "async" THEN "await"
                            ELSE "sync_to_async"),
                        VEv(hook, ""),
                        VEv("serializer_adata", "await"),
                        VEv("Response", "")>>
         /\ Cardinality(Added) = 1
         /\ Removed = {}
         /\ \A p \in DOMAIN last.pre : Kept(p)
         /\ \A p \in Added :
              /\ table[p] = last.data
              /\ last.body = Representation(SimpleUser(p, table[p]))

\* A valid create added a second user.
C16_Witness ==
    /\ CreateAccepted
    /\ last.status = 201
    /\ Cardinality(DOMAIN last.pre) = 1
    /\ Cardinality(DOMAIN table) = 2

\* The hook the last request is to run: partial_update shares update's.
HookOp == IF last.op = "partial_update" THEN "update" ELSE last.op

\* The last request reached the dispatch of its hook: it named a row that
\* exists and, where it carries data, the data was valid.
Dispatched ==
    \/ CreateAccepted
    \/ /\ last.op \in {"update", "partial_update"}
       /\ last.pk \in DOMAIN last.pre
       /\ FieldErrors(last.data, last.op = "partial_update", last.pre,
                      last.pk) = {}
    \/ last.op = "destroy" /\ last.pk \in DOMAIN last.pre

\* The messages of the warnings of the last request, in order.
Warned ==
    LET ws == SelectSeq(last.log, LAMBDA e : e.op = "warn")
    IN [i \in 1..Len(ws) |-> ws[i].via]

\* C17: a request whose perform_<op> hook is a plain function emits the
\* PendingDeprecationWarning "Non async perform_<op>(): <ClassName>" if and
\* only if the view's use_sync_perform_<op> is absent or falsy; a request
\* whose hook is a coroutine function emits no warning.
C17_WarnUnlessFlag ==
    /\ Dispatched /\ view.perform = "sync" /\ ~view.use_sync =>
         Warned = <<"Non async perform_" \o HookOp \o "(): " \o ClassName(view)>>
    /\ Dispatched /\ view.perform = "sync" /\ view.use_sync => Warned = <<>>
    /\ view.perform = "async" => Warned = <<>> /\ warnings = {}
    /\ view.use_sync => warnings = {}
    /\ \A w \in warnings : w.category = "PendingDeprecationWarning"

\* A view with a plain perform_destroy and no use_sync_perform_destroy has
\* deleted a row and warned; it had warned about perform_create before.
C17_Witness ==
    /\ last.op = "destroy"
    /\ last.status = 204
    /\ view = [perform |-> "sync", use_sync |-> FALSE]
    /\ Warned = <<"Non async perform_destroy(): AsyncSimpleUserViewHybrid">>
    /\ Cardinality(warnings) = 2

\* The steps of the last request, as a set.
StepSet == {last.log[i] : i \in 1..Len(last.log)}

\* What a view of kind v answers the last request with, on the table the
\* request found.
AnswerOf(v) ==
    CASE last.op = "create" -> Create(v, last.data, last.pre)
      [] last.op = "retrieve" -> Retrieve(v, last.pk, last.pre)
      [] last.op = "update" -> Update(v, last.pk, last.data, FALSE, last.pre)
      [] last.op = "partial_update" ->
            PartialUpdate(v, last.pk, last.data, last.pre)
      [] last.op = "destroy" -> Destroy(v, last.pk, last.pre)

SuccessStatus ==
    CASE last.op = "create" -> 201
      [] last.op = "destroy" -> 204
      [] OTHER -> 200

PartialValid ==
    /\ last.op = "partial_update"
    /\ last.pk \in DOMAIN last.pre
    /\ FieldErrors(last.data, TRUE, last.pre, last.pk) = {}

\* C19: partial_update is update with partial=True.  After a successful
\* partial update the stored object has the request's values for the
\* attributes the request gives and its previous values for all others, its
\* primary key is unchanged, and the response is 200 with the stored
\* object's state as data.
C19_PartialUpdateFrame ==
    /\ last.op = "partial_update" =>
         /\ last.log = Update(view, last.pk, last.data, TRUE, last.pre).log
         /\ last.status = 200 <=> PartialValid
    /\ PartialValid =>
         /\ DOMAIN table = DOMAIN last.pre
         /\ \A p \in DOMAIN table \ {last.pk} : Kept(p)
         /\ \A k \in Writable :
              table[last.pk][k] = IF k \in DOMAIN last.data THEN last.data[k]
                                  ELSE last.pre[last.pk][k]
         /\ last.body = Representation(SimpleUser(last.pk, table[last.pk]))
         /\ last.body.items[1] = <<"id", IntV(last.pk)>>

\* A partial update that gives only the age changed the age of a row and
\* nothing else.
C19_Witness ==
    /\ PartialValid
    /\ DOMAIN last.data = {"age"}
    /\ last.status = 200
    /\ table[last.pk].age # last.pre[last.pk].age
    /\ table[last.pk].username = last.pre[last.pk].username
    /\ Cardinality(DOMAIN table) = 2

\* The last request was a retrieve or a destroy of a row that is not in
\* the table.
Missing ==
    /\ last.op \in {"retrieve", "destroy"}
    /\ last.pk \notin DOMAIN last.pre

\* C20: when the requested object does not exist, retrieve and destroy
\* answer 404 with "No SimpleUser matches the given query."; destroy does
\* not run perform_destroy and deletes nothing, and retrieve computes no
\* serializer data.
C20_NotFound ==
    Missing =>
      /\ last.exc = "Http404"
      /\ last.status = 404
      /\ last.body = [detail |-> StrV("No SimpleUser matches the given query.")]
      /\ Times("perform_destroy") = 0
      /\ Times("adelete") = 0 /\ Times("delete") = 0
      /\ Times("serializer_adata") = 0
      /\ Warned = <<>>
      /\ table = last.pre

\* A destroy asked for a row that an earlier destroy had deleted, while
\* another row was in the table.
C20_Witness ==
    /\ Missing
    /\ last.op = "destroy"
    /\ last.status = 404
    /\ last.pk = 1
    /\ DOMAIN table = {2}

(***************************************************************************)
(* ModelSerializer.acreate and aupdate on ContactList, whose primary key   *)
(* is the one-to-one "user" and whose "contacts" is a many-to-many         *)
(* relation to User.  A row of the table is [contacts |-> set of user      *)
(* primary keys], at the primary key of its user.                          *)
(***************************************************************************)
MaxFriends == 2

UserPks == 1..MaxFriends

\* info.relations[name].to_many
ToMany == {"contacts"}

\* The part of a dictionary at the keys in ks.
Restrict(d, ks) == [k \in DOMAIN d \cap ks |-> d[k]]

\* validated_data: "user" and "contacts", each given or not.
ContactListData ==
    LET choice == [user : UserPks \cup {0},
                   contacts : (SUBSET UserPks) \cup {{0}}]
    IN {[k \in {j \in {"user", "contacts"} :
                  IF j = "user" THEN c.user # 0 ELSE c.contacts # {0}} |->
           c[k]] : c \in choice}

\* The ContactList instance of the row pk.
ContactList(pk) == [t |-> "Model", model |-> "ContactList", user_id |-> pk]

\* What acreate and aupdate leave behind.
Saved(exc, instance, tbl, log) ==
    [exc |-> exc, instance |-> instance, table |-> tbl, log |-> log]

\* A database operation, by the way it is called.  Awaited or run through
\* sync_to_async it takes effect; called directly in the thread of the
\* running event loop the ORM refuses it.
DbCall(via, tbl, effect) ==
    IF via = "direct"
    THEN [exc |-> "SynchronousOnlyOperation", table |-> tbl]
    ELSE [exc |-> "none", table |-> effect]

\* ModelClass._default_manager.acreate(**kwargs)
ManagerAcreate(tbl, kwargs) ==
    IF "user" \notin DOMAIN kwargs \/ kwargs.user \in DOMAIN tbl
    THEN [exc |-> "IntegrityError", table |-> tbl]
    ELSE DbCall("await", tbl,
                [p \in DOMAIN tbl \cup {kwargs.user} |->
                   IF p = kwargs.user THEN [contacts |-> {}] ELSE tbl[p]])

\* instance.asave(): updates the row of the instance's primary key, and
\* inserts it if there is none.
InstanceAsave(tbl, instance) ==
    DbCall("await", tbl,
           [p \in DOMAIN tbl \cup {instance.user_id} |->
              IF p \in DOMAIN tbl THEN tbl[p] ELSE [contacts |-> {}]])

\* field = getattr(instance, field_name); field.set(value)
FieldSet(tbl, instance, value) ==
    DbCall("direct", tbl, [tbl EXCEPT ![instance.user_id].contacts = value])

\* ModelSerializer.acreate
ContactListAcreate(tbl, validated_data) ==
    LET many_to_many == Restrict(validated_data, ToMany)
        kwargs == Restrict(validated_data, DOMAIN validated_data \ ToMany)
        created == ManagerAcreate(tbl, kwargs)
        log1 == <<LEv("acreate", "await", kwargs)>>
    IN
    IF created.exc # "none" THEN Saved(created.exc, None, created.table, log1)
    ELSE
    LET instance == ContactList(kwargs.user) IN
    IF DOMAIN many_to_many = {}
    THEN Saved("none", instance, created.table, log1)
    ELSE LET set == FieldSet(created.table, instance, many_to_many.contacts)
         IN Saved(set.exc, IF set.exc = "none" THEN instance ELSE None,
                  set.table,
                  Append(log1, LEv("set", "direct", many_to_many)))

\* ModelSerializer.aupdate
ContactListAupdate(tbl, instance, validated_data) ==
    LET m2m_fields == Restrict(validated_data, ToMany)
        updated == IF "user" \in DOMAIN validated_data
                   THEN [instance EXCEPT !.user_id = validated_data.user]
                   ELSE instance
        saved == InstanceAsave(tbl, updated)
        log1 == <<LEv("asave", "await", updated)>>
    IN
    IF saved.exc # "none" THEN Saved(saved.exc, None, saved.table, log1)
    ELSE IF DOMAIN m2m_fields = {}
    THEN Saved("none", updated, saved.table, log1)
    ELSE LET set == FieldSet(saved.table, updated, m2m_fields.contacts)
         IN Saved(set.exc, IF set.exc = "none" THEN updated ELSE None,
                  set.table,
                  Append(log1, LEv("set", "direct", m2m_fields)))

(***************************************************************************)
(* SpecM2M: ContactList rows are created, given contacts and updated.      *)
(***************************************************************************)
NoSave ==
    [op |-> "", pk |-> 0, data |-> NoRows, exc |-> "none", instance |-> None,
     log |-> <<>>, pre |-> NoRows, post |-> NoRows]

InitM2M ==
    /\ table = NoRows
    /\ tasks = NoTasks
    /\ last = NoSave
    /\ view = None
    /\ warnings = {}
    /\ ser = None
    /\ done = {}
    /\ rows = {}
    /\ inst = None
    /\ fields = <<>>
    /\ pre = [inst |-> None, rows |-> {}]
    /\ res = NoResult
    /\ ncalls = 0

\* op ran on the row pk with validated_data and left r behind.
SavedBy(op, pk, validated_data, r) ==
    /\ last' = [op |-> op, pk |-> pk, data |-> validated_data, exc |-> r.exc,
                instance |-> r.instance, log |-> r.log, pre |-> table,
                post |-> r.table]
    /\ table' = r.table
    /\ UNCHANGED <<view, warnings, ser, done>>
    /\ UNCHANGED <<reprVars, tasks>>

\* await serializer.acreate(validated_data)
AwaitAcreate ==
    \E validated_data \in ContactListData :
        SavedBy("acreate", 0, validated_data,
                ContactListAcreate(table, validated_data))

\* await serializer.aupdate(instance, validated_data), on an instance
\* loaded from the database
AwaitAupdate ==
    \E pk \in DOMAIN table, validated_data \in ContactListData :
        SavedBy("aupdate", pk, validated_data,
                ContactListAupdate(table, ContactList(pk), validated_data))

\* await contacts.contacts.aadd(u)
Aadd ==
    \E pk \in DOMAIN table, u \in UserPks :
        /\ u \notin table[pk].contacts
        /\ table' = [table EXCEPT ![pk].contacts = @ \cup {u}]
        /\ UNCHANGED <<last, view, warnings, ser, done>>
        /\ UNCHANGED <<reprVars, tasks>>

NextM2M == AwaitAcreate \/ AwaitAupdate \/ Aadd

SpecM2M == InitM2M /\ [][NextM2M]_vars

(***************************************************************************)
(* Claims about ModelSerializer.acreate and aupdate, checked under         *)
(* SpecM2M.                                                                *)
(***************************************************************************)
\* The positions in the last call's log of the calls named in ops.
SavePositions(ops) == {i \in 1..Len(last.log) : last.log[i].op \in ops}

\* The primary key of the row the last call wrote.
WrittenPk ==
    IF "user" \in DOMAIN last.data THEN last.data.user ELSE last.pk

\* The last call created or saved its row.
RowWritten ==
    \/ last.op = "aupdate"
    \/ /\ last.op = "acreate"
       /\ "user" \in DOMAIN last.data
       /\ last.data.user \notin DOMAIN last.pre

C30_NoBlockingCall ==
    last.op \in {"acreate", "aupdate"} =>
      \A i \in 1..Len(last.log) :
         last.log[i].via \in {"await", "sync_to_async"}

(***************************************************************************)
(* Further claims about the serializer's operations, checked under Spec.   *)
(***************************************************************************)
\* is_valid() has returned True on s.
Validated(s) ==
    /\ s._validated_data # Unset
    /\ s._errors # Unset
    /\ ~Truthy(s._errors)

\* The keys of a dictionary value, in order.
KeysOf(v) == [i \in 1..Len(v.items) |-> v.items[i][1]]

\* The names of the fields that are among the keys of v, in field order.
FieldOrder(v) ==
    SelectSeq([i \in 1..Len(SimpleFields) |-> SimpleFields[i].field_name],
              LAMBDA n : \E i \in 1..Len(v.items) : v.items[i][1] = n)

\* C22: on a validated serializer of plain fields, awaiting adata gives the
\* mapping that reading the synchronous data property gives, with the same
\* keys in field order.
C22_SyncAsyncAgree ==
    (last.op = "adata" /\ ~IsMany(last.pre) /\ Validated(last.pre)) =>
        /\ last.exc = "none"
        /\ SyncData(last.pre).exc = "none"
        /\ last.val = SyncData(last.pre).val
        /\ ser._data = SyncData(last.pre).ser._data
        /\ KeysOf(last.val) = FieldOrder(last.val)

\* adata was awaited for the first time on a serializer validated from
\* data alone.
C22_Witness ==
    /\ last.op = "adata"
    /\ last.pre.cls = "Serializer"
    /\ Validated(last.pre)
    /\ last.pre.instance = None
    /\ last.pre._data = Unset
    /\ last.val = Dict(<<<<"username", StrV("user1")>>, <<"age", IntV(1)>>>>)
    /\ SyncData(last.pre).val = last.val

(***************************************************************************)
(* SpecMany: a User who delivers is serialized.  rows holds the primary    *)
(* keys of the Delivery rows whose deliverer the user is.  The user's      *)
(* delivery_set is serialized by the ManyRelatedField a ModelSerializer    *)
(* builds for it or by a nested serializer with many=True.                 *)
(***************************************************************************)
\* A nested serializer with many=True: a ListSerializer and its child.
ListField(name, child, model) ==
    [field_name |-> name, source |-> name, cls |-> "ListSerializer",
     required |-> TRUE, child |-> child, child_model |-> model]

ManyFieldChoices ==
    {Field("username", "CharField"), Field("greeting", "CharField"),
     Field("target", "StringRelatedField"),
     Field("delivery_set", "ManyRelatedField")}
    \cup {ListField("delivery_set", c, "Delivery") :
            c \in {"Serializer", "DRFSerializer"}}

RECURSIVE ManyFieldLists(_)
ManyFieldLists(n) ==
    IF n = 0 THEN {<<>>}
    ELSE LET shorter == ManyFieldLists(n - 1) IN
         shorter \cup
         {Append(fl, f) : fl \in {x \in shorter : Len(x) = n - 1},
                          f \in ManyFieldChoices}

HasListField(fl) == \E i \in 1..Len(fl) : fl[i].cls = "ListSerializer"

\* User(username="test"), unsaved, or User.objects.acreate(username="test")
\* with the deliveries made for the user.  An unsaved user has no
\* deliveries, and its manager is not handed to a nested serializer.
InitMany ==
    /\ \E id \in {None, IntV(1)}, target_id \in {None, IntV(1)},
          cached \in BOOLEAN :
            inst = Deliverer(id, target_id,
                             IF ~cached THEN Unset
                             ELSE IF target_id = None THEN None
                             ELSE OrderRow(target_id.v))
    /\ rows \in SUBSET RowPks
    /\ inst.id = None => rows = {}
    /\ fields \in {fl \in ManyFieldLists(MaxFields) :
                        Len(fl) > 0 /\ DistinctNames(fl)}
    /\ inst.id = None => ~HasListField(fields)
    /\ pre = [inst |-> None, rows |-> {}]
    /\ res = NoResult
    /\ ncalls = 0
    /\ ser = None
    /\ last = None
    /\ done = {}
    /\ warnings = {}
    /\ view = None
    /\ table = NoRows
    /\ tasks = NoTasks

\* Delivery.objects.acreate(deliverer=user)
CreateDelivery ==
    /\ inst.id # None
    /\ \E p \in RowPks \ rows : rows' = rows \cup {p}
    /\ UNCHANGED <<inst, fields, pre, res, ncalls>>
    /\ UNCHANGED <<lifeVars, tasks>>

\* delivery.adelete()
DeleteDelivery ==
    /\ \E p \in rows : rows' = rows \ {p}
    /\ UNCHANGED <<inst, fields, pre, res, ncalls>>
    /\ UNCHANGED <<lifeVars, tasks>>

\* User.objects.aget(pk=...): a fresh instance, nothing cached.
ReloadDeliverer ==
    /\ inst.id # None
    /\ inst.target # Unset
    /\ inst' = [inst EXCEPT !.target = Unset]
    /\ UNCHANGED <<rows, fields, pre, res, ncalls>>
    /\ UNCHANGED <<lifeVars, tasks>>

NextMany == CreateDelivery \/ DeleteDelivery \/ ReloadDeliverer \/ Serialize

SpecMany == InitMany /\ [][NextMany]_vars

(***************************************************************************)
(* Claims about to-many relations (checked under SpecMany).                *)
(***************************************************************************)
\* The value the last call gave the field of that name.
Represented(name) ==
    LET k == CHOOSE k \in 1..Len(res.ret) : res.ret[k][1] = name IN
    res.ret[k][2]

\* The child's representation of one item, by the child's own operation.
ChildRepresentation(child, item, db) ==
    IF has_ato_representation([cls |-> child])
    THEN Dict(AtoRepresentation(DeliveryFields, item, db).ret)
    ELSE Dict(SyncToRepresentation(DeliveryFields, item).ret)

\* The calls of the child the last call logged for the field of that name.
ChildCalls(name) ==
    SelectSeq(res.log, LAMBDA e : e.field = name
                                  /\ e.op \in {"child.ato_representation",
                                               "child.to_representation"})

\* C23: a nested ListSerializer given the manager of a saved user's
\* delivery_set returns one entry per related Delivery, in the order the
\* manager's all() yields them, each entry the child's representation of
\* that Delivery; it awaits the child's ato_representation when the child
\* has one and runs the child's to_representation through sync_to_async
\* otherwise.  The ManyRelatedField of a model serializer gives exactly the
\* related objects' primary keys.
C23_OneEntryPerItem ==
    (ncalls > 0 /\ pre.inst.id # None) =>
        \A i \in 1..Len(fields) :
            fields[i].source = "delivery_set" =>
                LET items == PkOrder(pre.rows)
                    out == Represented("delivery_set")
                    calls == ChildCalls("delivery_set")
                IN
                /\ res.exc = "none"
                /\ out.t = "list"
                /\ Len(out.items) = Len(items)
                /\ fields[i].cls = "ManyRelatedField" =>
                    /\ \A k \in 1..Len(items) : out.items[k] = items[k].id
                    /\ {out.items[k] : k \in 1..Len(out.items)}
                           = {IntV(p) : p \in pre.rows}
                    /\ calls = <<>>
                /\ fields[i].cls = "ListSerializer" =>
                    /\ \A k \in 1..Len(items) :
                          out.items[k] = ChildRepresentation(
                                             fields[i].child, items[k],
                                             pre.rows)
                    /\ Len(calls) = Len(items)
                    /\ \A k \in 1..Len(calls) :
                          IF has_ato_representation([cls |-> fields[i].child])
                          THEN /\ calls[k].op = "child.ato_representation"
                               /\ calls[k].via = "await"
                          ELSE /\ calls[k].op = "child.to_representation"
                               /\ calls[k].via = "sync_to_async"

C23_Witness ==
    /\ ncalls > 0
    /\ res.exc = "none"
    /\ Cardinality(pre.rows) = MaxRows
    /\ \E i \in 1..Len(fields) :
          /\ fields[i].cls = "ListSerializer"
          /\ fields[i].child = "DRFSerializer"
          /\ Len(Represented("delivery_set").items) = MaxRows

\* The relation descriptors get_model_field_value names.
KnownRelationDescriptors ==
    {"ForwardManyToOneDescriptor", "ReverseOneToOneDescriptor",
     "ReverseManyToOneDescriptor"}

\* The reads of the user's own attributes the last call logged.
AttributeReads ==
    {k \in 1..Len(res.log) : /\ res.log[k].op = "get_attribute"
                             /\ res.log[k].field \in DOMAIN pre.inst}

Queried == \E k \in 1..Len(res.log) : res.log[k].op = "aget"

\* Serializing the instance the last call left, with the table as db,
\* queries the database.
QueriesAgain(db) ==
    LET again == AtoRepresentation(fields, res.instance, db) IN
    \E k \in 1..Len(again.log) : again.log[k].op = "aget"

\* C25 as stated: once a call has queried for the relation of an instance,
\* no later read of that relation on the same instance queries again.
C25_AsStated ==
    (ncalls > 0 /\ Queried) => ~QueriesAgain(rows)

\* C25, amended: a query that found the related row stores the object in
\* the instance's relation cache, and no later read of that instance
\* queries again, whatever the table holds by then; a query that did not
\* find the row stores nothing, and a later read queries again.
C25_FetchedIsCached ==
    (ncalls > 0 /\ Queried) =>
        IF pre.inst.order_id.v \in pre.rows
        THEN /\ res.instance.order = OrderRow(pre.inst.order_id.v)
             /\ \A db \in SUBSET RowPks : ~QueriesAgain(db)
        ELSE /\ res.instance.order = Unset
             /\ \A db \in SUBSET RowPks : QueriesAgain(db)

\* An instance whose relation was not cached was serialized, the row was
\* fetched, and the next read does not query.
C25_Witness ==
    /\ ncalls > 0
    /\ Queried
    /\ pre.inst.order = Unset
    /\ res.exc = "none"
    /\ inst = res.instance
    /\ is_cached(inst, "order")
    /\ ~QueriesAgain(rows)

(***************************************************************************)
(* Claims about repeated and failed awaits of adata (checked under Spec).  *)
(***************************************************************************)
\* What adata would give the serializer of the last call if nothing were
\* stored.
Recomputed == Adata([last.pre EXCEPT !._data = Unset], rows)

\* C26: an await of adata on a serializer whose _data is set returns the
\* stored value, calls neither ato_representation nor get_initial and leaves
\* the serializer as it was, even if computing it again would give another
\* value; the first successful await stores what it returns; an await that
\* raises leaves _data unset.
C26_ComputedOnce ==
    AdataAwaited =>
        /\ last.pre._data # Unset =>
            /\ last.exc = "none"
            /\ last.val = last.pre._data
            /\ ser = last.pre
            /\ ReprCalls = {}
            /\ CallsOf({"get_initial"}) = {}
        /\ (last.pre._data = Unset /\ last.exc = "none") =>
            ser._data = last.val
        /\ (last.pre._data = Unset /\ last.exc # "none") =>
            ser._data = Unset

\* A second await returned the stored value although the serializer had
\* changed and computing the data again would give another value.
C26_Witness ==
    /\ last.op = "adata"
    /\ last.pre._data # Unset
    /\ last.val = last.pre._data
    /\ Recomputed.exc = "none"
    /\ Recomputed.val # last.val

(***************************************************************************)
(* SpecConc: two coroutines await the adata of one serializer, which was   *)
(* built from a Delivery instance.  A coroutine runs without interruption  *)
(* until it awaits something that is not ready: a database fetch or a call *)
(* through sync_to_async.  There the event loop may run the other          *)
(* coroutine.  adata takes no lock.  The database does not change while    *)
(* the two are at work.                                                    *)
(***************************************************************************)
Coroutines == {"first", "second"}

NewTask ==
    [pc |-> "start", found |-> Unset, invoked |-> FALSE, resumed |-> FALSE,
     out |-> NoResult, exc |-> "none", val |-> None]

\* A variant in which no await gives up control.
SuspendsNever(log) == FALSE

\* ato_representation gives up control at a database fetch and at a call
\* through sync_to_async.
Suspends(log) ==
    \E k \in 1..Len(log) : log[k].op = "aget" \/ log[k].via = "sync_to_async"

\* self._data = <r>; return self._data -- by a coroutine whose
\* ato_representation has come to its end.
AdataFinish(s, r, resumed) ==
    [ser |-> IF r.exc = "none" THEN [s EXCEPT !._data = Dict(r.ret)] ELSE s,
     instance |-> r.instance,
     task |-> [pc |-> "done", found |-> Unset, invoked |-> TRUE,
               resumed |-> resumed, out |-> r, exc |-> r.exc,
               val |-> IF r.exc = "none" THEN Dict(r.ret) ELSE None]]

\* adata from its start to the first await that gives up control, or to
\* its end when there is none.
AdataBegin(s, instance, flds, db) ==
    IF s._data # Unset
    THEN [ser |-> s, instance |-> instance,
          task |-> [pc |-> "done", found |-> s._data, invoked |-> FALSE,
                    resumed |-> FALSE, out |-> NoResult, exc |-> "none",
                    val |-> s._data]]
    ELSE CHOOSE b \in
            {IF Suspends(r.log)
             THEN [ser |-> s, instance |-> instance,
                   task |-> [pc |-> "suspended", found |-> Unset,
                             invoked |-> TRUE, resumed |-> FALSE, out |-> r,
                             exc |-> "none", val |-> None]]
             ELSE AdataFinish(s, r, FALSE) :
               r \in {AtoRepresentation(flds, instance, db)}} : TRUE

\* ModelSerializer(instance), the instance loaded or built in memory.
InitConc ==
    /\ rows \in SUBSET RowPks
    /\ \E null \in BOOLEAN,
          order \in {Unset, None, UnsavedOrder} \cup {OrderRow(p) : p \in RowPks},
          key \in {None} \cup {IntV(p) : p \in RowPks} :
            /\ order \notin {Unset, None, UnsavedOrder} => key = order.id
            /\ order \in {None, UnsavedOrder} => key = None
            /\ inst = Delivery(IntV(1), StrV("n"), key, order, null)
    /\ fields \in {fl \in FieldLists(MaxFields) : Len(fl) > 0 /\ DistinctNames(fl)}
    /\ ser = NewSerializer("ModelSerializer", "", "object", Unset, TheInstance)
    /\ tasks = [c \in Coroutines |-> NewTask]
    /\ ncalls = 0
    /\ pre = [inst |-> None, rows |-> {}]
    /\ res = NoResult
    /\ last = None
    /\ done = {}
    /\ warnings = {}
    /\ view = None
    /\ table = NoRows

\* A coroutine starts: await serializer.adata
Begin(c) ==
    /\ tasks[c].pc = "start"
    /\ \E b \in {AdataBegin(ser, inst, fields, rows)} :
        /\ tasks' = [tasks EXCEPT ![c] = b.task]
        /\ ser' = b.ser
        /\ inst' = b.instance
        /\ ncalls' = IF b.task.invoked THEN ncalls + 1 ELSE ncalls
    /\ UNCHANGED <<rows, fields, pre, res, last, done, warnings, view, table>>

\* The event loop runs a coroutine whose await has become ready, to the end
\* of its adata.
Resume(c) ==
    /\ tasks[c].pc = "suspended"
    /\ \E f \in {AdataFinish(ser, tasks[c].out, TRUE)} :
        /\ tasks' = [tasks EXCEPT ![c] = f.task]
        /\ ser' = f.ser
        /\ inst' = f.instance
    /\ UNCHANGED <<rows, fields, pre, res, ncalls, last, done, warnings, view,
                   table>>

NextConc == \E c \in Coroutines : Begin(c) \/ Resume(c)

SpecConc == InitConc /\ [][NextConc]_vars

(***************************************************************************)
(* Claims about concurrent awaits of adata (checked under SpecConc).       *)
(***************************************************************************)
BothDone == \A c \in Coroutines : tasks[c].pc = "done"

\* The coroutines that started while _data was not set.
FoundNoData == {c \in Coroutines : tasks[c].pc # "start"
                                   /\ tasks[c].found = Unset}

\* C27 as stated: when both coroutines have received their data,
\* ato_representation was invoked at most once and both received the same
\* data.
C27_AsStated ==
    (BothDone /\ \A c \in Coroutines : tasks[c].exc = "none") =>
        /\ ncalls <= 1
        /\ \A c, d \in Coroutines : tasks[c].val = tasks[d].val

\* C27, amended: ato_representation is invoked once by each coroutine that
\* starts while _data is not set, and by no other.  Both coroutines start
\* so only if the first invocation gave up control -- it fetched a relation
\* or ran a call through sync_to_async, and then it did give up control --
\* or raised.  Both receive equal data, or the same exception.
C27_OncePerCoroutine ==
    /\ ncalls = Cardinality(FoundNoData)
    /\ \A c \in Coroutines :
          /\ tasks[c].invoked = (c \in FoundNoData)
          /\ tasks[c].pc = "done" /\ tasks[c].invoked =>
                tasks[c].resumed =
                    (\E k \in 1..Len(tasks[c].out.log) :
                        \/ tasks[c].out.log[k].op = "aget"
                        \/ tasks[c].out.log[k].via = "sync_to_async")
    /\ ncalls > 1 =>
          \E c \in Coroutines :
              tasks[c].pc = "suspended" \/ tasks[c].resumed
              \/ tasks[c].exc # "none"
    /\ BothDone =>
          \A c, d \in Coroutines :
              tasks[c].val = tasks[d].val /\ tasks[c].exc = tasks[d].exc

\* Both coroutines invoked ato_representation and both received the data.
C27_Witness ==
    /\ BothDone
    /\ ncalls = Cardinality(Coroutines)
    /\ \A c \in Coroutines :
          tasks[c].exc = "none" /\ tasks[c].resumed
          /\ tasks[c].val = ser._data

(***************************************************************************)
(* Claims about asave when the implementation returns None, and about the  *)
(* checks of ListSerializer.asave (checked under Spec).                    *)
(***************************************************************************)
\* The last operation awaited asave(), which called an acreate or aupdate
\* that returned None.
SaveReturnedNone ==
    /\ AsaveAwaited
    /\ last.pre.impl = "none"
    /\ CallsOf({"acreate", "aupdate"}) # {}

\* C28 as stated: when acreate or aupdate returns None, asave raises
\* AssertionError and the serializer's instance is what it was before.
C28_AsStated ==
    SaveReturnedNone =>
        /\ last.exc = "AssertionError"
        /\ ser.instance = last.pre.instance

\* C28, amended: when acreate or aupdate returns None, asave raises
\* AssertionError after it has assigned the None: the serializer's instance
\* is None, which is what it was before acreate and not what it was before
\* aupdate; nothing else of the serializer changes.
C28_NoneIsAssigned ==
    SaveReturnedNone =>
        /\ last.exc = "AssertionError"
        /\ ser = [last.pre EXCEPT !.instance = None]
        /\ (CallsOf({"acreate"}) # {}) = (last.pre.instance = None)

\* aupdate returned None and the serializer lost its instance.
C28_Witness ==
    /\ SaveReturnedNone
    /\ CallsOf({"aupdate"}) # {}
    /\ last.pre.instance # None
    /\ ser.instance = None
    /\ last.exc = "AssertionError"

\* A condition under which BaseSerializer.asave refuses to run.
ProtocolBroken ==
    \/ last.pre._errors = Unset
    \/ Truthy(last.pre._errors)
    \/ "commit" \in DOMAIN last.kwargs
    \/ last.pre._data # Unset

\* C29 as stated: ListSerializer.asave raises AssertionError and calls
\* neither acreate nor aupdate when is_valid() has not been called, when
\* the serializer has errors, when 'commit' is passed or when the data has
\* been accessed.
C29_AsStated ==
    (ListAsaveRan /\ ProtocolBroken) =>
        /\ last.exc = "AssertionError"
        /\ SaveCalls = {}

\* C29, amended: ListSerializer.asave raises AssertionError, calls neither
\* acreate nor aupdate and leaves the serializer as it was when 'commit' is
\* passed or is_valid() has not been called; in every other case, errors
\* and accessed data included, it calls acreate or aupdate.
C29_ListChecksTwo ==
    ListAsaveRan =>
        IF "commit" \in DOMAIN last.kwargs \/ last.pre._validated_data = Unset
        THEN /\ last.exc = "AssertionError"
             /\ SaveCalls = {}
             /\ ser = last.pre
        ELSE /\ CallsOf({"acreate", "aupdate"}) # {}
             /\ (last.pre._errors = Unset) = FALSE

\* A list serializer with errors was saved.
C29_Witness ==
    /\ ListAsaveRan
    /\ Truthy(last.pre._errors)
    /\ CallsOf({"acreate"}) # {}
    /\ last.exc = "none"
    /\ ser.instance = List(<<>>)

====
